---- MODULE Spec2Model ----
(***************************************************************************)
(* mechanic: per-node maintenance agent.                                   *)
(*                                                                         *)
(* Two specifications share this module:                                   *)
(*   SpecImds  the policy resolver of pkg/imds (CheckIfDrainRequired,      *)
(*             CheckIfFreezeOrLiveMigration, isNodeImpacted) applied to    *)
(*             bounded probe responses, policies and node names;           *)
(*   Spec      the reconcile pass of both drivers (HandleNodeUpdate,       *)
(*             handleIMDSCheck, HandleNodeCordonAndDrain, validateCordon)  *)
(*             against one node object that other actors also write.       *)
(* Strings that the code searches or converts are sequences of one-letter  *)
(* strings; event descriptions are sequences of words.                     *)
(***************************************************************************)
EXTENDS Integers, Sequences, FiniteSets, TLC

VARIABLES
    req,        \* SpecImds: the resolver call made last (function and inputs)
    res,        \* SpecImds: what that call returned
    node,       \* the node object in the cluster: spec.unschedulable, label mechanic.cordoned
    cfg,        \* config.Config: the two drain policies and the node name
    bypass,     \* cfg.BypassNodeProblemDetector: TRUE selects the polling driver
    state,      \* appstate.State without its Lock
    lock,       \* state.Lock
    pc,         \* where each handler invocation stands
    loc,        \* the locals of each handler invocation
    pass,       \* history of the pass each handler is running
    cordonBy    \* history: who applied the cordon now on the node

imdsVars == <<req, res>>
passVars == <<node, cfg, bypass, state, lock, pc, loc, pass, cordonBy>>
vars     == <<req, res, node, cfg, bypass, state, lock, pc, loc, pass, cordonBy>>

(***************************************************************************)
(* Bounds                                                                  *)
(***************************************************************************)
\* longest list of events drawn from EventPool for one probe response
MaxEvents == 2
\* handler invocations (update callbacks, timer ticks) in flight together
MaxHandlers == 2
\* longest list of node conditions handed to the evaluator
MaxConds == 2

(***************************************************************************)
(* Text                                                                    *)
(***************************************************************************)
\* strings.Contains on sequences: sub occurs in s as a contiguous run
Contains(s, sub) ==
    \E i \in 0..(Len(s) - Len(sub)) : SubSeq(s, i + 1, i + Len(sub)) = sub

Digits36 ==
    << "0", "1", "2", "3", "4", "5", "6", "7", "8", "9",
       "a", "b", "c", "d", "e", "f", "g", "h", "i", "j", "k", "l", "m",
       "n", "o", "p", "q", "r", "s", "t", "u", "v", "w", "x", "y", "z" >>

IsDigit36(c) == \E i \in 1..36 : Digits36[i] = c

DigitVal(c) == (CHOOSE i \in 1..36 : Digits36[i] = c) - 1

RECURSIVE ParseDigits36(_, _)
ParseDigits36(s, acc) ==
    IF s = << >> THEN acc
    ELSE ParseDigits36(Tail(s), acc * 36 + DigitVal(Head(s)))

\* strconv.ParseInt(s, 36, 64): optional sign, then base-36 digits only
ParseInt36(s) ==
    LET signed == s # << >> /\ Head(s) \in {"+", "-"}
        body   == IF signed THEN Tail(s) ELSE s
    IN  IF body = << >> \/ \E i \in 1..Len(body) : ~IsDigit36(body[i])
        THEN [ok |-> FALSE, val |-> 0]
        ELSE [ok |-> TRUE,
              val |-> IF signed /\ Head(s) = "-"
                      THEN 0 - ParseDigits36(body, 0)
                      ELSE ParseDigits36(body, 0)]

RECURSIVE FormatNat(_)
FormatNat(n) ==
    IF n < 10 THEN << Digits36[n + 1] >>
    ELSE FormatNat(n \div 10) \o << Digits36[(n % 10) + 1] >>

\* fmt's %d
FormatInt(n) == IF n < 0 THEN << "-" >> \o FormatNat(0 - n) ELSE FormatNat(n)

VmssPrefix == << "t", "e", "s", "t", "-", "v", "m", "s", "s" >>

\* node names: test-vmss000001, test-vmss00000c, test-vmss00_001
NodeName1   == VmssPrefix \o << "0", "0", "0", "0", "0", "1" >>
NodeName12  == VmssPrefix \o << "0", "0", "0", "0", "0", "c" >>
NodeNameBad == VmssPrefix \o << "0", "0", "_", "0", "0", "1" >>

\* resource names: test-vmss_1, _test-vmss_1, test-vmss_2, test-vmss_4, test-vmss_12
Res1       == VmssPrefix \o << "_", "1" >>
ResPrefix1 == << "_" >> \o Res1
Res2       == VmssPrefix \o << "_", "2" >>
Res4       == VmssPrefix \o << "_", "4" >>
Res12      == VmssPrefix \o << "_", "1", "2" >>

LMPhrase == << "memory-preserving", "Live", "Migration" >>

DescLM ==
    << "Virtual", "machine", "is", "being", "paused", "because", "of", "a",
       "memory-preserving", "Live", "Migration", "operation." >>
DescFreeze == << "freeze", "maintenance" >>
DescLower  == << "memory-preserving", "live", "migration" >>

(***************************************************************************)
(* pkg/imds: policy resolver                                               *)
(***************************************************************************)
EventTypes == {"Reboot", "Redeploy", "Freeze", "Preempt", "Terminate"}

SchedPolicies ==
    [Freeze : BOOLEAN, Reboot : BOOLEAN, Redeploy : BOOLEAN,
     Preempt : BOOLEAN, Terminate : BOOLEAN, LiveMigration : BOOLEAN]

getInstanceName(nodeName) ==
    LET n            == Len(nodeName)
        instanceName == SubSeq(nodeName, n - 5, n)
        vm           == SubSeq(nodeName, 1, n - 6)
        decoded      == ParseInt36(instanceName)
    IN  IF ~decoded.ok
        THEN [err |-> TRUE, name |-> << >>]
        ELSE [err |-> FALSE, name |-> vm \o << "_" >> \o FormatInt(decoded.val)]

isNodeImpacted(nodeName, event) ==
    LET instance == getInstanceName(nodeName)
    IN  IF instance.err
        THEN [impacted |-> FALSE, err |-> TRUE]
        ELSE [impacted |->
                  /\ event.ResourceType = "VirtualMachine"
                  /\ \E i \in 1..Len(event.Resources) :
                        \/ event.Resources[i] = instance.name
                        \/ Contains(event.Resources[i], instance.name),
              err |-> FALSE]

\* the map eventDrainableConditions; a type that is not a key reads as false
eventDrainableConditions(sched, type) ==
    CASE type = "Reboot"    -> sched.Reboot
      [] type = "Redeploy"  -> sched.Redeploy
      [] type = "Preempt"   -> sched.Preempt
      [] type = "Terminate" -> sched.Terminate
      [] type = "Freeze"    -> sched.Freeze
      [] OTHER              -> FALSE

maxRetries == 3
baseDelay  == 2
maxDelay   == 10

Pow2(i) == IF i = 0 THEN 1 ELSE IF i = 1 THEN 2 ELSE 4

\* no back-off cap: the delay keeps doubling and a non-EOF error is retried too
RECURSIVE queryLoopRetryAll(_, _, _)
queryLoopRetryAll(outs, i, delays) ==
    IF i >= maxRetries
    THEN [events |-> << >>, err |-> outs[i].err, attempts |-> i, delays |-> delays,
          returned |-> FALSE]
    ELSE LET out == outs[i + 1]
         IN  IF out.err = "nil"
             THEN [events |-> out.events, err |-> "nil", attempts |-> i + 1,
                   delays |-> delays, returned |-> FALSE]
             ELSE queryLoopRetryAll(outs, i + 1, Append(delays, baseDelay * Pow2(i)))

\* the retry loop around QueryIMDS; outs[i] is what the i-th query returns
\* ([err: "nil" | "EOF" | "other", events]); delays are in seconds
RECURSIVE queryLoop(_, _, _)
queryLoop(outs, i, delays) ==
    IF i >= maxRetries
    THEN [events |-> << >>, err |-> "EOF", attempts |-> i, delays |-> delays,
          returned |-> FALSE]
    ELSE LET out == outs[i + 1]
         IN  IF out.err = "nil"
             THEN [events |-> out.events, err |-> "nil", attempts |-> i + 1,
                   delays |-> delays, returned |-> FALSE]
             ELSE IF out.err = "EOF"
             THEN LET d == baseDelay * Pow2(i)
                  IN  queryLoop(outs, i + 1,
                          Append(delays, IF d > maxDelay THEN maxDelay ELSE d))
             ELSE [events |-> << >>, err |-> out.err, attempts |-> i + 1,
                   delays |-> delays, returned |-> TRUE]

\* break instead of continue at a targeted event that does not drain
RECURSIVE drainLoopBreak(_, _, _, _)
drainLoopBreak(events, i, nodeName, sched) ==
    IF i > Len(events) THEN [drain |-> FALSE, err |-> "nil"]
    ELSE LET event == events[i]
             imp   == isNodeImpacted(nodeName, event)
         IN  IF imp.err THEN [drain |-> FALSE, err |-> "parse"]
             ELSE IF ~imp.impacted
             THEN drainLoopBreak(events, i + 1, nodeName, sched)
             ELSE IF event.Type # "Freeze"
                     /\ eventDrainableConditions(sched, event.Type)
             THEN [drain |-> TRUE, err |-> "nil"]
             ELSE IF event.Type = "Freeze"
                     /\ (eventDrainableConditions(sched, event.Type)
                         \/ Contains(event.Description, LMPhrase))
             THEN [drain |-> TRUE, err |-> "nil"]
             ELSE [drain |-> FALSE, err |-> "nil"]

\* the loop over resp.Events of CheckIfDrainRequired, from event i on
RECURSIVE drainLoop(_, _, _, _)
drainLoop(events, i, nodeName, sched) ==
    IF i > Len(events) THEN [drain |-> FALSE, err |-> "nil"]
    ELSE LET event == events[i]
             imp   == isNodeImpacted(nodeName, event)
         IN  IF imp.err THEN [drain |-> FALSE, err |-> "parse"]
             ELSE IF ~imp.impacted
             THEN drainLoop(events, i + 1, nodeName, sched)
             ELSE IF event.Type # "Freeze"
                     /\ eventDrainableConditions(sched, event.Type)
             THEN [drain |-> TRUE, err |-> "nil"]
             ELSE IF event.Type = "Freeze"
             THEN IF ~eventDrainableConditions(sched, event.Type)
                  THEN IF Contains(event.Description, LMPhrase)
                       THEN [drain |-> TRUE, err |-> "nil"]
                       ELSE drainLoop(events, i + 1, nodeName, sched)
                  ELSE [drain |-> TRUE, err |-> "nil"]
             ELSE drainLoop(events, i + 1, nodeName, sched)

CheckIfDrainRequired(outs, nodeName, sched) ==
    LET q == queryLoop(outs, 0, << >>)
    IN  IF q.returned THEN [drain |-> FALSE, err |-> q.err]
        ELSE IF Len(q.events) = 0 THEN [drain |-> FALSE, err |-> q.err]
        ELSE drainLoop(q.events, 1, nodeName, sched)

\* the loop over resp.Events of CheckIfFreezeOrLiveMigration, from event i on
RECURSIVE lmLoop(_, _, _, _)
lmLoop(events, i, nodeName, sched) ==
    IF i > Len(events) THEN [drain |-> FALSE, err |-> "nil"]
    ELSE LET event == events[i]
             imp   == isNodeImpacted(nodeName, event)
         IN  IF imp.err THEN [drain |-> FALSE, err |-> "parse"]
             ELSE IF imp.impacted /\ event.Type = "Freeze"
                     /\ Contains(event.Description, LMPhrase)
                     /\ sched.LiveMigration
             THEN [drain |-> TRUE, err |-> "nil"]
             ELSE lmLoop(events, i + 1, nodeName, sched)

CheckIfFreezeOrLiveMigration(outs, nodeName, sched) ==
    LET q == queryLoop(outs, 0, << >>)
    IN  IF q.returned THEN [drain |-> FALSE, err |-> q.err]
        ELSE IF Len(q.events) = 0 THEN [drain |-> FALSE, err |-> q.err]
        ELSE lmLoop(q.events, 1, nodeName, sched)

(***************************************************************************)
(* SpecImds: the resolver applied to bounded inputs                        *)
(***************************************************************************)
Ev(t, rt, rs, d) ==
    [Type |-> t, ResourceType |-> rt, Resources |-> rs, Description |-> d]

ResourceLists ==
    { << Res1 >>, << ResPrefix1 >>, << Res4 >>, << Res12 >>, << Res4, Res1 >>, << >> }

AllEvents ==
    [Type : EventTypes \cup {"Unknown"},
     ResourceType : {"VirtualMachine", "Other"},
     Resources : ResourceLists,
     Description : {DescLM, DescFreeze, DescLower}]

EventPool ==
    { Ev("Reboot", "VirtualMachine", << Res1 >>, DescFreeze),
      Ev("Redeploy", "VirtualMachine", << ResPrefix1 >>, DescFreeze),
      Ev("Preempt", "VirtualMachine", << Res1 >>, DescFreeze),
      Ev("Terminate", "VirtualMachine", << Res1 >>, DescFreeze),
      Ev("Freeze", "VirtualMachine", << Res1 >>, DescFreeze),
      Ev("Freeze", "VirtualMachine", << Res1 >>, DescLM),
      Ev("Reboot", "VirtualMachine", << Res4 >>, DescFreeze),
      Ev("Freeze", "VirtualMachine", << Res2 >>, DescLM),
      Ev("Reboot", "Other", << Res1 >>, DescFreeze) }

SeqsUpTo(S, n) == UNION { [1..k -> S] : k \in 0..n }

NodeNames == {NodeName1, NodeName12, NodeNameBad}

Ok(events) == [err |-> "nil", events |-> events]
Eof        == [err |-> "EOF", events |-> << >>]
Other      == [err |-> "other", events |-> << >>]

\* query results that precede the answering one
Pres == { << Eof >>, << Eof, Eof >>, << Eof, Eof, Eof >>, << Other >>, << Eof, Other >> }

ResolverFns == {"CheckIfDrainRequired", "CheckIfFreezeOrLiveMigration"}

Call(f, outs, n, s) == [fn |-> f, outs |-> outs, node |-> n, sched |-> s]

\* one event of every shape, for every node name and policy
SingleEventCall(r) ==
    \E f \in ResolverFns, e \in AllEvents, n \in NodeNames, s \in SchedPolicies :
        r = Call(f, << Ok(<< e >>) >>, n, s)

\* lists of events of the pool
EventListCall(r) ==
    \E f \in ResolverFns, es \in SeqsUpTo(EventPool, MaxEvents), s \in SchedPolicies :
        r = Call(f, << Ok(es) >>, NodeName1, s)

\* a probe that fails before it answers
RetriedCall(r) ==
    \E f \in ResolverFns, pre \in Pres, s \in SchedPolicies,
       es \in { << >>, << Ev("Freeze", "VirtualMachine", << Res1 >>, DescLM) >> } :
        r = Call(f, pre \o << Ok(es) >>, NodeName1, s)

(***************************************************************************)
(* pkg/node: condition evaluator                                           *)
(***************************************************************************)
OptPolicies ==
    [KubeletProblem : BOOLEAN, KernelDeadlock : BOOLEAN,
     FrequentKubeletRestarts : BOOLEAN, FrequentContainerdRestarts : BOOLEAN,
     FsCorrupt : BOOLEAN]

\* (dc *ScheduledEventDrainConditions) DrainableConditions, as a set
DrainableConditions(dc) ==
    (IF dc.Freeze \/ dc.LiveMigration THEN {"FreezeScheduled"} ELSE {})
    \cup (IF dc.Reboot THEN {"RebootScheduled"} ELSE {})
    \cup (IF dc.Redeploy THEN {"RedeployScheduled"} ELSE {})
    \cup (IF dc.Preempt THEN {"PreemptScheduled"} ELSE {})
    \cup (IF dc.Terminate THEN {"TerminateScheduled"} ELSE {})

\* (oc *OptionalDrainConditions) OptionalDrainableConditions, as a set
OptionalDrainableConditions(oc) ==
    (IF oc.KubeletProblem THEN {"KubeletProblem"} ELSE {})
    \cup (IF oc.KernelDeadlock THEN {"KernelDeadlock"} ELSE {})
    \cup (IF oc.FrequentKubeletRestarts THEN {"FrequentKubeletRestart"} ELSE {})
    \cup (IF oc.FrequentContainerdRestarts THEN {"FrequentContainerdRestart"} ELSE {})
    \cup (IF oc.FsCorrupt THEN {"FileSystemCorruptionProblem"} ELSE {})

\* the optional-condition branch without its guard `!drainableResp`: a later
\* condition with another status resets the result
RECURSIVE conditionLoopReset(_, _, _, _, _, _)
conditionLoopReset(conditions, i, eventShouldDrain, optDrainable, drainableResp, eventResp) ==
    IF i > Len(conditions) \/ (eventResp /\ drainableResp)
    THEN << drainableResp, eventResp >>
    ELSE LET condition == conditions[i]
             isEvent   == ~eventResp /\ condition.Type \in eventShouldDrain
             eventR    == IF isEvent THEN condition.Status = "True" ELSE eventResp
             drainR1   == IF isEvent /\ condition.Status = "True"
                          THEN TRUE ELSE drainableResp
             isOpt     == condition.Type \in optDrainable
             drainR2   == IF isOpt THEN condition.Status = "True" ELSE drainR1
         IN  conditionLoopReset(conditions, i + 1, eventShouldDrain, optDrainable,
                                drainR2, eventR)

\* the loop of CheckNodeConditions from condition i on
RECURSIVE conditionLoop(_, _, _, _, _, _)
conditionLoop(conditions, i, eventShouldDrain, optDrainable, drainableResp, eventResp) ==
    IF i > Len(conditions) \/ (eventResp /\ drainableResp)
    THEN << drainableResp, eventResp >>
    ELSE LET condition == conditions[i]
             isEvent   == ~eventResp /\ condition.Type \in eventShouldDrain
             eventR    == IF isEvent THEN condition.Status = "True" ELSE eventResp
             drainR1   == IF isEvent /\ condition.Status = "True"
                          THEN TRUE ELSE drainableResp
             isOpt     == ~drainR1 /\ condition.Type \in optDrainable
             drainR2   == IF isOpt THEN condition.Status = "True" ELSE drainR1
         IN  conditionLoop(conditions, i + 1, eventShouldDrain, optDrainable,
                           drainR2, eventR)

CheckNodeConditions(conditions, eventDrainConditions, optDrainConditions) ==
    conditionLoop(conditions, 1,
                  {"VMEventScheduled"} \cup DrainableConditions(eventDrainConditions),
                  OptionalDrainableConditions(optDrainConditions),
                  FALSE, FALSE)

(***************************************************************************)
(* Spec: the reconcile pass                                                *)
(***************************************************************************)
\* handler invocations that may be in flight together
Handlers == 1..MaxHandlers

Cond(t, st) == [Type |-> t, Status |-> st]

\* node.Status.Conditions: nothing active, a scheduled event, a kernel deadlock
CondNone   == << Cond("VMEventScheduled", "False"), Cond("KernelDeadlock", "False") >>
CondSched  == << Cond("VMEventScheduled", "True"), Cond("KernelDeadlock", "False") >>
CondKernel == << Cond("VMEventScheduled", "False"), Cond("KernelDeadlock", "True") >>
CondLists  == {CondNone, CondSched, CondKernel}

\* what the metadata service may report when it is queried
ImdsResponses ==
    { << >>,
      << Ev("Freeze", "VirtualMachine", << Res1 >>, DescLM) >>,
      << Ev("Freeze", "VirtualMachine", << Res1 >>, DescFreeze) >>,
      << Ev("Redeploy", "VirtualMachine", << Res1 >>, DescFreeze) >>,
      << Ev("Reboot", "VirtualMachine", << Res4 >>, DescFreeze) >> }

\* the configurations the agent runs with: the defaults of ReadConfiguration
\* with kernelDeadlock enabled and freeze and liveMigration set either way
Configs ==
    { [sched |-> [Freeze |-> f, Reboot |-> FALSE, Redeploy |-> TRUE,
                  Preempt |-> TRUE, Terminate |-> TRUE, LiveMigration |-> l],
       opt |-> [KubeletProblem |-> FALSE, KernelDeadlock |-> TRUE,
                FrequentKubeletRestarts |-> FALSE,
                FrequentContainerdRestarts |-> FALSE, FsCorrupt |-> FALSE],
       NodeName |-> NodeName1] : f \in BOOLEAN, l \in BOOLEAN }

\* what the queries of one resolver call return, in order
ProbeOutcomes(events) ==
    { << Ok(events) >>, << Eof, Eof, Eof >>, << Other >> }

NewState(unschedulable) ==
    [HasDrainableCondition |-> FALSE, ConditionIsScheduledEvent |-> FALSE,
     IsCordoned |-> unschedulable, IsDrained |-> FALSE, ShouldDrain |-> FALSE]

NodeObj(u, l) == [unsched |-> u, label |-> l]

NoLoc == [node |-> NodeObj(FALSE, FALSE), conds |-> << >>, ret |-> "none"]

\* pass history: the node and the state at the entry guard, what the pass
\* evaluated, probed, wrote and recorded
NoPass ==
    [entryNode |-> NodeObj(FALSE, FALSE), entryState |-> NewState(FALSE),
     evaluated |-> FALSE, eval |-> << FALSE, FALSE >>, queries |-> 0,
     probeErr |-> FALSE, probed |-> << >>, decided |-> FALSE,
     shouldDrain |-> FALSE,
     snapshotRead |-> FALSE, snapshot |-> NodeObj(FALSE, FALSE),
     refetchedRead |-> FALSE, refetched |-> NodeObj(FALSE, FALSE),
     cordons |-> << >>, drains |-> 0, uncordons |-> << >>,
     writes |-> << >>, events |-> << >>]

PassPcs ==
    {"update", "lm_query", "imds_get", "imds_query", "cad", "cordon_update",
     "cordon_verify", "drain", "refetch", "uncordon", "rmlabel", "unlock"}

Init ==
    /\ req = Call("none", << >>, NodeName1, [Freeze |-> FALSE, Reboot |-> FALSE,
                  Redeploy |-> FALSE, Preempt |-> FALSE, Terminate |-> FALSE,
                  LiveMigration |-> FALSE])
    /\ res = [done |-> FALSE, drain |-> FALSE, err |-> "nil"]
    /\ node \in {NodeObj(FALSE, FALSE), NodeObj(TRUE, FALSE), NodeObj(TRUE, TRUE)}
    /\ cfg \in Configs
    /\ bypass \in BOOLEAN
    /\ state = NewState(node.unsched)
    /\ lock = FALSE
    /\ pc = [h \in Handlers |-> "idle"]
    /\ loc = [h \in Handlers |-> NoLoc]
    /\ pass = [h \in Handlers |-> NoPass]
    /\ cordonBy = IF ~node.unsched THEN "none"
                  ELSE IF node.label THEN "agent" ELSE "other"

Event(h, type, reason) ==
    [pass EXCEPT ![h].events = Append(@, << type, reason >>)]

\* validateCordon returns without resetting the drain result
cleanupKeepsDrained(st) == [st EXCEPT !.ShouldDrain = FALSE]

\* validateCordon's closing lines: the drain decision and result are reset
cleanup(st) == [st EXCEPT !.ShouldDrain = FALSE, !.IsDrained = FALSE]

----
\* the environment

\* another actor cordons the node (kubectl cordon): labels are left alone
OtherCordon ==
    /\ ~node.unsched
    /\ node' = [node EXCEPT !.unsched = TRUE]
    /\ cordonBy' = "other"
    /\ UNCHANGED <<req, res, cfg, bypass, state, lock, pc, loc, pass>>

\* another actor uncordons the node: labels are left alone
OtherUncordon ==
    /\ node.unsched
    /\ node' = [node EXCEPT !.unsched = FALSE]
    /\ cordonBy' = "none"
    /\ UNCHANGED <<req, res, cfg, bypass, state, lock, pc, loc, pass>>

----
\* the entry guard of HandleNodeUpdate and handleIMDSCheck

\* the lock was free: the pass starts; in watch mode the argument `new` is the
\* node object as delivered with the update, with the conditions the problem
\* detector published last
Acquire(h) ==
    /\ lock' = TRUE
    /\ pc' = [pc EXCEPT ![h] = IF bypass THEN "imds_get" ELSE "update"]
    /\ IF bypass
       THEN loc' = [loc EXCEPT ![h] = NoLoc]
       ELSE \E c \in CondLists :
               loc' = [loc EXCEPT ![h] = [NoLoc EXCEPT !.node = node, !.conds = c]]
    /\ pass' = [pass EXCEPT ![h] = [NoPass EXCEPT !.entryNode = node,
                                                  !.entryState = state]]
    /\ UNCHANGED <<req, res, node, cfg, bypass, state, cordonBy>>

\* the lock is taken whether or not another pass holds it
TryLockAlways(h) ==
    /\ pc[h] = "idle"
    /\ Acquire(h)

\* state.Lock.Lock(): the trigger waits for the lock and runs afterwards
LockBlocking(h) ==
    /\ pc[h] \in {"idle", "waiting"}
    /\ IF lock
       THEN /\ pc[h] = "idle"
            /\ pc' = [pc EXCEPT ![h] = "waiting"]
            /\ UNCHANGED <<req, res, node, cfg, bypass, state, lock,
                           loc, pass, cordonBy>>
       ELSE Acquire(h)

\* didLock := state.Lock.TryLock(); if !didLock { return }
TryLock(h) ==
    /\ pc[h] = "idle"
    /\ IF lock
       THEN /\ pc' = [pc EXCEPT ![h] = "skipped"]
            /\ UNCHANGED <<req, res, node, cfg, bypass, state, lock,
                           loc, pass, cordonBy>>
       ELSE Acquire(h)

\* the skipped invocation returns
ReturnSkipped(h) ==
    /\ pc[h] = "skipped"
    /\ pc' = [pc EXCEPT ![h] = "idle"]
    /\ UNCHANGED <<req, res, node, cfg, bypass, state, lock, loc,
                   pass, cordonBy>>

\* the pass returns without releasing the lock
UnlockNever(h) ==
    /\ pc[h] = "unlock"
    /\ lock' = lock
    /\ pc' = [pc EXCEPT ![h] = "idle"]
    /\ loc' = [loc EXCEPT ![h] = NoLoc]
    /\ pass' = [pass EXCEPT ![h] = NoPass]
    /\ UNCHANGED <<req, res, node, cfg, bypass, state, cordonBy>>

\* the deferred state.Lock.Unlock()
Unlock(h) ==
    /\ pc[h] = "unlock"
    /\ lock' = FALSE
    /\ pc' = [pc EXCEPT ![h] = "idle"]
    /\ loc' = [loc EXCEPT ![h] = NoLoc]
    /\ pass' = [pass EXCEPT ![h] = NoPass]
    /\ UNCHANGED <<req, res, node, cfg, bypass, state, cordonBy>>

----
\* watch mode: HandleNodeUpdate

\* the resolver is called for every drainable condition
HandleNodeUpdateProbeAlways(h) ==
    /\ pc[h] = "update"
    /\ LET ev  == CheckNodeConditions(loc[h].conds, cfg.sched, cfg.opt)
           st1 == [state EXCEPT !.HasDrainableCondition = ev[1],
                                !.ConditionIsScheduledEvent = ev[2]]
       IN  /\ pass' = [pass EXCEPT ![h].evaluated = TRUE, ![h].eval = ev]
           /\ loc' = [loc EXCEPT ![h].conds = << >>]
           /\ IF ~st1.HasDrainableCondition
              THEN /\ state' = st1
                   /\ pc' = [pc EXCEPT ![h] = "unlock"]
              ELSE IF st1.IsCordoned /\ st1.IsDrained
              THEN /\ state' = st1
                   /\ pc' = [pc EXCEPT ![h] = "unlock"]
              ELSE /\ state' = [st1 EXCEPT !.ShouldDrain = TRUE]
                   /\ pc' = [pc EXCEPT ![h] = "lm_query"]
    /\ UNCHANGED <<req, res, node, cfg, bypass, lock, cordonBy>>

\* evaluate and decide, up to the call of the resolver or of the act phase
HandleNodeUpdate(h) ==
    /\ pc[h] = "update"
    /\ LET ev  == CheckNodeConditions(loc[h].conds, cfg.sched, cfg.opt)
           st1 == [state EXCEPT !.HasDrainableCondition = ev[1],
                                !.ConditionIsScheduledEvent = ev[2]]
       IN  /\ pass' = [pass EXCEPT ![h].evaluated = TRUE, ![h].eval = ev]
           /\ loc' = [loc EXCEPT ![h].conds = << >>]
           /\ IF ~st1.HasDrainableCondition
              THEN /\ state' = st1
                   /\ pc' = [pc EXCEPT ![h] = "unlock"]
              ELSE IF st1.IsCordoned /\ st1.IsDrained
              THEN /\ state' = st1
                   /\ pc' = [pc EXCEPT ![h] = "unlock"]
              ELSE /\ state' = [st1 EXCEPT !.ShouldDrain = TRUE]
                   /\ pc' = [pc EXCEPT ![h] =
                                IF st1.ConditionIsScheduledEvent
                                THEN "lm_query" ELSE "cad"]
    /\ UNCHANGED <<req, res, node, cfg, bypass, lock, cordonBy>>

\* the two policy flags are exchanged
overturnedSwapped(isLM, sched) ==
    \/ ~isLM /\ ~sched.LiveMigration
    \/ isLM /\ ~sched.Freeze

\* the drain decision is never overturned
overturnedNever(isLM, sched) == FALSE

\* the drain decision is overturned as soon as one of the two flags is off
overturnedAnyFlagOff(isLM, sched) == ~sched.Freeze \/ ~sched.LiveMigration

\* the drain decision is overturned
overturned(isLM, sched) ==
    \/ ~isLM /\ ~sched.Freeze
    \/ isLM /\ ~sched.LiveMigration

\* the call of CheckIfFreezeOrLiveMigration and what follows from its result
FreezeOrLiveMigration(h) ==
    /\ pc[h] = "lm_query"
    /\ \E events \in ImdsResponses : \E outs \in ProbeOutcomes(events) :
         LET r == CheckIfFreezeOrLiveMigration(outs, cfg.NodeName, cfg.sched)
             q == queryLoop(outs, 0, << >>)
         IN  IF r.err # "nil"
             THEN /\ pass' = [pass EXCEPT ![h].queries = @ + q.attempts,
                                          ![h].probeErr = TRUE]
                  /\ pc' = [pc EXCEPT ![h] = "unlock"]
                  /\ state' = state
             ELSE /\ pass' = [pass EXCEPT ![h].queries = @ + q.attempts,
                                          ![h].decided = TRUE,
                                          ![h].probed = events,
                                          ![h].shouldDrain = ~overturned(r.drain, cfg.sched)]
                  /\ pc' = [pc EXCEPT ![h] = "cad"]
                  /\ state' = IF overturned(r.drain, cfg.sched)
                              THEN [state EXCEPT !.ShouldDrain = FALSE]
                              ELSE state
    /\ UNCHANGED <<req, res, node, cfg, bypass, lock, loc, cordonBy>>

----
\* polling mode: handleIMDSCheck

\* clientset.CoreV1().Nodes().Get and the update of the cordon state
GetNode(h) ==
    /\ pc[h] = "imds_get"
    /\ \/ /\ loc' = [loc EXCEPT ![h].node = node]
          /\ state' = [state EXCEPT !.IsCordoned = node.unsched]
          /\ pass' = [pass EXCEPT ![h].snapshotRead = TRUE, ![h].snapshot = node]
          /\ pc' = [pc EXCEPT ![h] = "imds_query"]
       \/ /\ pc' = [pc EXCEPT ![h] = "unlock"]
          /\ UNCHANGED <<loc, state, pass>>
    /\ UNCHANGED <<req, res, node, cfg, bypass, lock, cordonBy>>

\* the call of CheckIfDrainRequired and the update of the state from its result
DrainRequired(h) ==
    /\ pc[h] = "imds_query"
    /\ \E events \in ImdsResponses : \E outs \in ProbeOutcomes(events) :
         LET r == CheckIfDrainRequired(outs, cfg.NodeName, cfg.sched)
             q == queryLoop(outs, 0, << >>)
         IN  IF r.err # "nil"
             THEN /\ pass' = [pass EXCEPT ![h].queries = @ + q.attempts,
                                          ![h].probeErr = TRUE]
                  /\ pc' = [pc EXCEPT ![h] = "unlock"]
                  /\ state' = state
             ELSE /\ pass' = [pass EXCEPT ![h].queries = @ + q.attempts,
                                          ![h].evaluated = TRUE,
                                          ![h].eval = << r.drain, FALSE >>,
                                          ![h].decided = TRUE,
                                          ![h].probed = events,
                                          ![h].shouldDrain = r.drain]
                  /\ pc' = [pc EXCEPT ![h] = "cad"]
                  /\ state' = [state EXCEPT !.HasDrainableCondition = r.drain,
                                            !.ShouldDrain = r.drain]
    /\ UNCHANGED <<req, res, node, cfg, bypass, lock, loc, cordonBy>>

----
\* pkg/node: the actuator and the act phase

\* cordonNode has returned (cordoned, err); its caller records the event,
\* stores the result and goes on: HandleNodeCordonAndDrain to the drain,
\* validateCordon to its return
cordonReturned(h, cordoned, wrote) ==
    /\ state' = IF cordoned THEN [state EXCEPT !.IsCordoned = TRUE] ELSE state
    /\ pass' = [pass EXCEPT
                   ![h].events = Append(@, << IF cordoned THEN "Normal" ELSE "Warning",
                                              "CordonNode" >>),
                   ![h].cordons = Append(@, [cordoned |-> cordoned, wrote |-> wrote,
                                             at |-> node])]
    /\ pc' = [pc EXCEPT ![h] = IF loc[h].ret = "validate" THEN "unlock" ELSE "drain"]

\* the act phase up to the first cluster call
HandleNodeCordonAndDrain(h) ==
    /\ pc[h] = "cad"
    /\ IF state.HasDrainableCondition /\ state.ShouldDrain
       THEN IF state.IsCordoned /\ state.IsDrained
            THEN /\ pc' = [pc EXCEPT ![h] = "unlock"]
                 /\ UNCHANGED <<state, pass, loc>>
            ELSE IF state.IsCordoned
            THEN /\ pass' = Event(h, "Normal", "CordonNode")
                 /\ pc' = [pc EXCEPT ![h] = "drain"]
                 /\ UNCHANGED <<state, loc>>
            ELSE IF loc[h].node.unsched
            THEN \* cordonNode: the node passed in is already unschedulable
                 /\ cordonReturned(h, TRUE, FALSE)
                 /\ UNCHANGED loc
            ELSE /\ pc' = [pc EXCEPT ![h] = "cordon_update"]
                 /\ loc' = [loc EXCEPT ![h].ret = "cad"]
                 /\ UNCHANGED <<state, pass>>
       ELSE /\ pc' = [pc EXCEPT ![h] = "refetch"]
            /\ UNCHANGED <<state, pass, loc>>
    /\ UNCHANGED <<req, res, node, cfg, bypass, lock, cordonBy>>

\* cordonNode: retry.RetryOnConflict around Get, set unschedulable and label, Update
cordonNodeUpdate(h) ==
    /\ pc[h] = "cordon_update"
    /\ \/ /\ node' = NodeObj(TRUE, TRUE)
          /\ cordonBy' = IF node.unsched THEN cordonBy ELSE "agent"
          /\ pass' = [pass EXCEPT ![h].writes = Append(@, "cordon")]
          /\ pc' = [pc EXCEPT ![h] = "cordon_verify"]
          /\ UNCHANGED state
       \/ /\ cordonReturned(h, FALSE, FALSE)
          /\ UNCHANGED <<node, cordonBy>>
    /\ UNCHANGED <<req, res, cfg, bypass, lock, loc>>

\* the result node is accepted as it is
resultNodeUnchecked(res_node) == TRUE

\* cordonNode: validate result node state
resultNodeValid(res_node) == res_node.unsched /\ res_node.label

\* cordonNode: the Get after the update and the validation of its result
cordonNodeVerify(h) ==
    /\ pc[h] = "cordon_verify"
    /\ \/ cordonReturned(h, resultNodeValid(node), TRUE)
       \/ cordonReturned(h, FALSE, TRUE)
    /\ UNCHANGED <<req, res, node, cfg, bypass, lock, loc, cordonBy>>

\* a failed drain is tried again at once, within the same step of the pass
drainNodeRetry(h) ==
    /\ pc[h] = "drain"
    /\ IF state.IsDrained
       THEN UNCHANGED <<state, pass>>
       ELSE \/ /\ state' = [state EXCEPT !.IsDrained = TRUE]
               /\ pass' = [pass EXCEPT ![h].drains = @ + 1,
                                       ![h].events = Append(@, << "Normal", "DrainNode" >>)]
            \/ /\ state' = state
               /\ pass' = [pass EXCEPT ![h].drains = @ + 2,
                                       ![h].events = Append(@, << "Warning", "DrainNode" >>)]
    /\ pc' = [pc EXCEPT ![h] = "refetch"]
    /\ UNCHANGED <<req, res, node, cfg, bypass, lock, loc, cordonBy>>

\* the drain step of the act phase: drainNode unless the state says drained
drainNode(h) ==
    /\ pc[h] = "drain"
    /\ IF state.IsDrained
       THEN UNCHANGED <<state, pass>>
       ELSE \/ /\ state' = [state EXCEPT !.IsDrained = TRUE]
               /\ pass' = [pass EXCEPT ![h].drains = @ + 1,
                                       ![h].events = Append(@, << "Normal", "DrainNode" >>)]
            \/ /\ state' = state
               /\ pass' = [pass EXCEPT ![h].drains = @ + 1,
                                       ![h].events = Append(@, << "Warning", "DrainNode" >>)]
    /\ pc' = [pc EXCEPT ![h] = "refetch"]
    /\ UNCHANGED <<req, res, node, cfg, bypass, lock, loc, cordonBy>>

\* the cordon is released whether or not the node carries the label
ownsCordonAlways(updated) == TRUE

\* validateCordon: _, ok := node.Labels["mechanic.cordoned"]
ownsCordon(updated) == updated.label

\* with a drainable condition a node found schedulable is cordoned whatever
\* the state says
validateBranchCordonAlways(st, updated) ==
    IF st.HasDrainableCondition
    THEN IF ~updated.unsched THEN "recordon"
         ELSE IF ~st.IsCordoned /\ updated.unsched THEN "adopt"
         ELSE "insync"
    ELSE IF st.IsCordoned
         THEN IF ownsCordon(updated) THEN "release" ELSE "foreign"
         ELSE IF updated.unsched /\ ownsCordon(updated) THEN "drift"
         ELSE "none"

\* with a drainable condition the state is never brought in line with a node
\* found unschedulable
validateBranchNoAdopt(st, updated) ==
    IF st.HasDrainableCondition
    THEN IF st.IsCordoned /\ ~updated.unsched THEN "recordon" ELSE "insync"
    ELSE IF st.IsCordoned
         THEN IF ownsCordon(updated) THEN "release" ELSE "foreign"
         ELSE IF updated.unsched /\ ownsCordon(updated) THEN "drift"
         ELSE "none"

\* the branch validateCordon takes for the state and the re-fetched node
validateBranch(st, updated) ==
    IF st.HasDrainableCondition
    THEN IF st.IsCordoned /\ ~updated.unsched THEN "recordon"
         ELSE IF ~st.IsCordoned /\ updated.unsched THEN "adopt"
         ELSE "insync"
    ELSE IF st.IsCordoned
         THEN IF ownsCordon(updated) THEN "release" ELSE "foreign"
         ELSE IF updated.unsched /\ ownsCordon(updated) THEN "drift"
         ELSE "none"

\* the Get of the updated node and validateCordon up to its first cluster call
validateCordon(h) ==
    /\ pc[h] = "refetch"
    /\ \/ /\ pc' = [pc EXCEPT ![h] = "unlock"]
          /\ UNCHANGED <<state, loc, pass>>
       \/ LET branch == validateBranch(state, node)
          IN  /\ pass' = [pass EXCEPT ![h].refetchedRead = TRUE,
                                      ![h].refetched = node]
              /\ CASE branch = "recordon" ->
                        /\ pc' = [pc EXCEPT ![h] = "cordon_update"]
                        /\ loc' = [loc EXCEPT ![h].ret = "validate"]
                        /\ state' = state
                   [] branch = "adopt" ->
                        /\ pc' = [pc EXCEPT ![h] = "unlock"]
                        /\ state' = [state EXCEPT !.IsCordoned = TRUE]
                        /\ loc' = loc
                   [] branch = "insync" ->
                        /\ pc' = [pc EXCEPT ![h] = "unlock"]
                        /\ state' = state
                        /\ loc' = loc
                   [] branch \in {"release", "drift"} ->
                        /\ pc' = [pc EXCEPT ![h] = "uncordon"]
                        /\ loc' = [loc EXCEPT ![h].ret = branch]
                        /\ state' = state
                   [] branch = "foreign" ->
                        /\ pc' = [pc EXCEPT ![h] = "unlock"]
                        /\ state' = cleanup([state EXCEPT !.IsCordoned = TRUE])
                        /\ loc' = loc
                   [] branch = "none" ->
                        /\ pc' = [pc EXCEPT ![h] = "unlock"]
                        /\ state' = cleanup(state)
                        /\ loc' = loc
    /\ UNCHANGED <<req, res, node, cfg, bypass, lock, cordonBy>>

\* uncordonNode: retry.RetryOnConflict around Get, clear unschedulable and
\* label, Update; then validateCordon's handling of its result
uncordonNode(h) ==
    /\ pc[h] = "uncordon"
    /\ \/ /\ node' = NodeObj(FALSE, FALSE)
          /\ cordonBy' = "none"
          /\ pass' = [pass EXCEPT
                         ![h].writes = Append(@, "uncordon"),
                         ![h].events = Append(@, << "Normal", "UncordonNode" >>),
                         ![h].uncordons = Append(@, [sawLabel |-> pass[h].refetched.label,
                                                     was |-> node,
                                                     by |-> cordonBy])]
          /\ IF loc[h].ret = "drift"
             THEN /\ state' = [state EXCEPT !.IsCordoned = FALSE]
                  /\ pc' = [pc EXCEPT ![h] = "rmlabel"]
             ELSE /\ state' = cleanup([state EXCEPT !.IsCordoned = FALSE])
                  /\ pc' = [pc EXCEPT ![h] = "unlock"]
       \/ /\ pass' = Event(h, "Warning", "UncordonNode")
          /\ state' = cleanup(state)
          /\ pc' = [pc EXCEPT ![h] = "unlock"]
          /\ UNCHANGED <<node, cordonBy>>
    /\ UNCHANGED <<req, res, cfg, bypass, lock, loc>>

\* removeMechanicCordonLabel, then validateCordon's closing lines
removeMechanicCordonLabel(h) ==
    /\ pc[h] = "rmlabel"
    /\ \/ /\ node' = [node EXCEPT !.label = FALSE]
          /\ pass' = [pass EXCEPT ![h].writes = Append(@, "rmlabel")]
       \/ UNCHANGED <<node, pass>>
    /\ state' = cleanup(state)
    /\ pc' = [pc EXCEPT ![h] = "unlock"]
    /\ UNCHANGED <<req, res, cfg, bypass, lock, loc, cordonBy>>

Next ==
    \/ \E h \in Handlers :
          \/ TryLock(h)
          \/ ReturnSkipped(h)
          \/ HandleNodeUpdate(h)
          \/ FreezeOrLiveMigration(h)
          \/ GetNode(h)
          \/ DrainRequired(h)
          \/ HandleNodeCordonAndDrain(h)
          \/ cordonNodeUpdate(h)
          \/ cordonNodeVerify(h)
          \/ drainNode(h)
          \/ validateCordon(h)
          \/ uncordonNode(h)
          \/ removeMechanicCordonLabel(h)
          \/ Unlock(h)
    \/ OtherCordon
    \/ OtherUncordon

Spec == Init /\ [][Next]_vars

(***************************************************************************)
(* Claims about the reconcile pass.  A pass is complete when its handler   *)
(* stands at "unlock": everything but the deferred Unlock has run.         *)
(***************************************************************************)
PassDone(h) == pc[h] = "unlock"

InPass(h) == pc[h] \in PassPcs

\* the pass found no drainable condition
NoDrainableCondition(h) == pass[h].evaluated /\ ~pass[h].eval[1]

Wrote(h, w) == \E i \in 1..Len(pass[h].writes) : pass[h].writes[i] = w

\* C1: in watch mode a pass whose evaluator returns (false, false), entered
\* with the node unschedulable and labelled and with isCordoned and isDrained
\* true, uncordons the node (removing the label), records exactly one Normal
\* UncordonNode event and ends with shouldDrain and isDrained false.
C1_WatchPassReleasesOwnCordon ==
    \A h \in Handlers :
        ( /\ PassDone(h)
          /\ ~bypass
          /\ pass[h].evaluated
          /\ pass[h].eval = << FALSE, FALSE >>
          /\ pass[h].entryNode = NodeObj(TRUE, TRUE)
          /\ pass[h].entryState.IsCordoned
          /\ pass[h].entryState.IsDrained )
        => /\ Wrote(h, "uncordon")
           /\ pass[h].events = << << "Normal", "UncordonNode" >> >>
           /\ ~state.ShouldDrain
           /\ ~state.IsDrained

\* C2: every uncordon written by the agent follows a re-fetch that showed
\* the label, and never clears a cordon that another actor applied.
C2_UncordonOnlyOwnCordon ==
    \A h \in Handlers :
        \A i \in 1..Len(pass[h].uncordons) :
            /\ pass[h].uncordons[i].sawLabel
            /\ ~(pass[h].uncordons[i].was.unsched /\ pass[h].uncordons[i].by = "other")

C4_OnePassUnderLock ==
    /\ [](/\ Cardinality({h \in Handlers : InPass(h)}) <= 1
          /\ lock <=> \E h \in Handlers : InPass(h))
    /\ [][state' # state => (lock /\ \E h \in Handlers : InPass(h) /\ pc'[h] # pc[h])]_vars

\* a pass that returned early on a probe error, still before its Unlock,
\* while another trigger was skipped
C4_Witness ==
    \E h, g \in Handlers :
        /\ h # g
        /\ PassDone(h)
        /\ pass[h].probeErr
        /\ pc[g] = "skipped"

\* C5: a trigger that meets a held lock returns at the entry guard without
\* touching the state, the node or the lock, and never becomes a pass.
C5_ContendedTriggerDropped ==
    /\ [][\A h \in Handlers :
            (pc[h] = "idle" /\ lock /\ pc'[h] # "idle")
            => (pc'[h] = "skipped" /\ UNCHANGED <<state, node, lock, pass, loc>>)]_vars
    /\ [][\A h \in Handlers :
            pc[h] = "skipped"
            => /\ pc'[h] \in {"skipped", "idle"}
               /\ pc'[h] = "idle" => UNCHANGED <<state, node, lock, pass, loc>>]_vars

\* a trigger skipped while the other handler is in the middle of its pass
C5_Witness ==
    \E h, g \in Handlers :
        /\ pc[h] = "skipped"
        /\ pc[g] \in {"drain", "refetch", "uncordon"}

\* C6 as stated: whenever cordonNode returns cordoned=true, the node at that
\* moment is unschedulable and carries the label.
C6_CordonedMeansLabelled ==
    \A h \in Handlers :
        \A i \in 1..Len(pass[h].cordons) :
            pass[h].cordons[i].cordoned
            => pass[h].cordons[i].at.unsched /\ pass[h].cordons[i].at.label

\* C6 amended: whenever cordonNode returns cordoned=true after its update,
\* its verification read shows the node unschedulable and labelled; it
\* returns cordoned=true without update only for a node passed in
\* unschedulable.
C6_CordonedAfterUpdateVerified ==
    \A h \in Handlers :
        \A i \in 1..Len(pass[h].cordons) :
            pass[h].cordons[i].cordoned
            => IF pass[h].cordons[i].wrote
               THEN pass[h].cordons[i].at.unsched /\ pass[h].cordons[i].at.label
               ELSE loc[h].node.unsched

\* cordonNode has updated the node, verified it and returned cordoned=true
C6_Witness ==
    \E h \in Handlers :
        \E i \in 1..Len(pass[h].cordons) :
            pass[h].cordons[i].cordoned /\ pass[h].cordons[i].wrote

NotCalled == [done |-> FALSE, drain |-> FALSE, err |-> "nil"]

InitImds ==
    /\ \/ SingleEventCall(req)
       \/ EventListCall(req)
       \/ RetriedCall(req)
    /\ res = NotCalled
    /\ node = NodeObj(FALSE, FALSE)
    /\ cfg \in {c \in Configs : c.sched.LiveMigration /\ ~c.sched.Freeze}
    /\ bypass = FALSE
    /\ state = NewState(FALSE)
    /\ lock = FALSE
    /\ pc = [h \in Handlers |-> "idle"]
    /\ loc = [h \in Handlers |-> NoLoc]
    /\ pass = [h \in Handlers |-> NoPass]
    /\ cordonBy = "none"

DoCheckIfDrainRequired ==
    /\ ~res.done
    /\ req.fn = "CheckIfDrainRequired"
    /\ LET r == CheckIfDrainRequired(req.outs, req.node, req.sched)
       IN  res' = [done |-> TRUE, drain |-> r.drain, err |-> r.err]
    /\ UNCHANGED req
    /\ UNCHANGED passVars

DoCheckIfFreezeOrLiveMigration ==
    /\ ~res.done
    /\ req.fn = "CheckIfFreezeOrLiveMigration"
    /\ LET r == CheckIfFreezeOrLiveMigration(req.outs, req.node, req.sched)
       IN  res' = [done |-> TRUE, drain |-> r.drain, err |-> r.err]
    /\ UNCHANGED req
    /\ UNCHANGED passVars

NextImds ==
    \/ DoCheckIfDrainRequired
    \/ DoCheckIfFreezeOrLiveMigration

SpecImds == InitImds /\ [][NextImds]_vars

(***************************************************************************)
(* Claims about the resolver                                               *)
(***************************************************************************)
\* value names the instance: the instance name itself, possibly prefixed
Denotes(value, instance) ==
    /\ Len(value) >= Len(instance)
    /\ SubSeq(value, Len(value) - Len(instance) + 1, Len(value)) = instance

\* the event is a VirtualMachine event listing a resource that denotes the node
TargetsNode(event, nodeName) ==
    /\ event.ResourceType = "VirtualMachine"
    /\ ~getInstanceName(nodeName).err
    /\ \E i \in 1..Len(event.Resources) :
          Denotes(event.Resources[i], getInstanceName(nodeName).name)

HasLMPhrase(event) == Contains(event.Description, LMPhrase)

\* the call whose probe answered at the first query, without error
Answered(fn) ==
    /\ res.done
    /\ req.fn = fn
    /\ Len(req.outs) = 1
    /\ res.err = "nil"

ProbeEvents == req.outs[1].events

KindFlag(sched, type) ==
    \/ type = "Reboot" /\ sched.Reboot
    \/ type = "Redeploy" /\ sched.Redeploy
    \/ type = "Preempt" /\ sched.Preempt
    \/ type = "Terminate" /\ sched.Terminate

\* C7: for one VirtualMachine event of kind Reboot, Redeploy, Preempt or
\* Terminate that targets the node, CheckIfDrainRequired returns the policy
\* flag of that kind; for a list it returns true iff some event of the list
\* alone makes it return true, so the order of the events does not matter.
C7_DrainPerKindAndList ==
    Answered("CheckIfDrainRequired") =>
        /\ ( /\ Len(ProbeEvents) = 1
             /\ TargetsNode(ProbeEvents[1], req.node)
             /\ ProbeEvents[1].Type \in {"Reboot", "Redeploy", "Preempt", "Terminate"} )
           => (res.drain <=> KindFlag(req.sched, ProbeEvents[1].Type))
        /\ res.drain <=>
              \E i \in 1..Len(ProbeEvents) :
                  CheckIfDrainRequired(<< Ok(<< ProbeEvents[i] >>) >>, req.node, req.sched).drain

\* a two-event response whose first event targets the node without draining
\* and whose second event drains
C7_Witness ==
    /\ Answered("CheckIfDrainRequired")
    /\ Len(ProbeEvents) = 2
    /\ TargetsNode(ProbeEvents[1], req.node)
    /\ ProbeEvents[1].Type = "Freeze"
    /\ ~CheckIfDrainRequired(<< Ok(<< ProbeEvents[1] >>) >>, req.node, req.sched).drain
    /\ TargetsNode(ProbeEvents[2], req.node)
    /\ ProbeEvents[2].Type = "Reboot"
    /\ req.sched.Reboot
    /\ res.drain

\* C8: for one Freeze event that targets the node, CheckIfDrainRequired
\* returns true iff (the description has the live-migration phrase and
\* policy.LiveMigration) or (it has not and policy.Freeze).
C8_FreezeByPolicy ==
    ( /\ Answered("CheckIfDrainRequired")
      /\ Len(ProbeEvents) = 1
      /\ TargetsNode(ProbeEvents[1], req.node)
      /\ ProbeEvents[1].Type = "Freeze" )
    => (res.drain <=>
           \/ HasLMPhrase(ProbeEvents[1]) /\ req.sched.LiveMigration
           \/ ~HasLMPhrase(ProbeEvents[1]) /\ req.sched.Freeze)

\* C9: CheckIfFreezeOrLiveMigration returns true iff policy.LiveMigration and
\* the response has a Freeze event that targets the node and whose
\* description has the live-migration phrase.
C9_LiveMigrationIff ==
    Answered("CheckIfFreezeOrLiveMigration") =>
        (res.drain <=>
            /\ req.sched.LiveMigration
            /\ \E i \in 1..Len(ProbeEvents) :
                  /\ ProbeEvents[i].Type = "Freeze"
                  /\ TargetsNode(ProbeEvents[i], req.node)
                  /\ HasLMPhrase(ProbeEvents[i]))

\* C10: both resolver functions return false when no event of the response
\* is a VirtualMachine event listing a resource that denotes the node.
C10_NoTargetNoDrain ==
    ( /\ res.done
      /\ Len(req.outs) = 1
      /\ ~getInstanceName(req.node).err
      /\ \A i \in 1..Len(ProbeEvents) : ~TargetsNode(ProbeEvents[i], req.node) )
    => ~res.drain

(***************************************************************************)
(* SpecEval: the evaluator applied to bounded inputs                       *)
(***************************************************************************)
\* condition types: the generic and two kind-specific scheduled-event types,
\* two host-health types and one type the agent does not know
CondTypes ==
    {"VMEventScheduled", "FreezeScheduled", "RebootScheduled",
     "KernelDeadlock", "KubeletProblem", "Ready"}

CondStatuses == {"True", "False", "Unknown"}

EvalSched ==
    { [Freeze |-> f, Reboot |-> r, Redeploy |-> TRUE, Preempt |-> TRUE,
       Terminate |-> TRUE, LiveMigration |-> l] :
          f \in BOOLEAN, r \in BOOLEAN, l \in BOOLEAN }

EvalOpt ==
    { [KubeletProblem |-> k, KernelDeadlock |-> d,
       FrequentKubeletRestarts |-> FALSE, FrequentContainerdRestarts |-> FALSE,
       FsCorrupt |-> FALSE] : k \in BOOLEAN, d \in BOOLEAN }

EvalNotCalled == [done |-> FALSE, drain |-> FALSE, event |-> FALSE]

InitEval ==
    /\ \E conds \in SeqsUpTo({Cond(t, st) : t \in CondTypes, st \in CondStatuses}, MaxConds) :
          \E s \in EvalSched : \E o \in EvalOpt :
              req = [fn |-> "CheckNodeConditions", conds |-> conds,
                     sched |-> s, opt |-> o]
    /\ res = EvalNotCalled
    /\ node = NodeObj(FALSE, FALSE)
    /\ cfg \in {c \in Configs : c.sched.LiveMigration /\ ~c.sched.Freeze}
    /\ bypass = FALSE
    /\ state = NewState(FALSE)
    /\ lock = FALSE
    /\ pc = [h \in Handlers |-> "idle"]
    /\ loc = [h \in Handlers |-> NoLoc]
    /\ pass = [h \in Handlers |-> NoPass]
    /\ cordonBy = "none"

DoCheckNodeConditions ==
    /\ ~res.done
    /\ LET r == CheckNodeConditions(req.conds, req.sched, req.opt)
       IN  res' = [done |-> TRUE, drain |-> r[1], event |-> r[2]]
    /\ UNCHANGED req
    /\ UNCHANGED passVars

NextEval == DoCheckNodeConditions

SpecEval == InitEval /\ [][NextEval]_vars

(***************************************************************************)
(* Claims about the evaluator                                              *)
(***************************************************************************)
Reverse(s) == [i \in 1..Len(s) |-> s[Len(s) + 1 - i]]

\* the type is a scheduled-event type the policy enables
ScheduledTypeEnabled(type, sched) ==
    \/ type = "VMEventScheduled"
    \/ type = "FreezeScheduled" /\ (sched.Freeze \/ sched.LiveMigration)
    \/ type = "RebootScheduled" /\ sched.Reboot
    \/ type = "RedeployScheduled" /\ sched.Redeploy
    \/ type = "PreemptScheduled" /\ sched.Preempt
    \/ type = "TerminateScheduled" /\ sched.Terminate

\* the type is a host-health type the policy enables
HealthTypeEnabled(type, opt) ==
    \/ type = "KubeletProblem" /\ opt.KubeletProblem
    \/ type = "KernelDeadlock" /\ opt.KernelDeadlock
    \/ type = "FrequentKubeletRestart" /\ opt.FrequentKubeletRestarts
    \/ type = "FrequentContainerdRestart" /\ opt.FrequentContainerdRestarts
    \/ type = "FileSystemCorruptionProblem" /\ opt.FsCorrupt

\* C11: CheckNodeConditions returns isScheduledEvent true iff some condition
\* with status True has an enabled scheduled-event type, and drainable true
\* iff isScheduledEvent or some condition with status True has an enabled
\* host-health type; the result is the same for the reversed list and the
\* call leaves the agent state as it was.
C11_EvaluatorResult ==
    res.done =>
        /\ res.event <=>
              \E i \in 1..Len(req.conds) :
                  /\ req.conds[i].Status = "True"
                  /\ ScheduledTypeEnabled(req.conds[i].Type, req.sched)
        /\ res.drain <=>
              \/ res.event
              \/ \E i \in 1..Len(req.conds) :
                    /\ req.conds[i].Status = "True"
                    /\ HealthTypeEnabled(req.conds[i].Type, req.opt)
        /\ CheckNodeConditions(Reverse(req.conds), req.sched, req.opt)
              = << res.drain, res.event >>
        /\ state = NewState(FALSE)

\* an enabled host-health condition is True and a later enabled one is False
C11_Witness ==
    /\ res.done
    /\ Len(req.conds) = 2
    /\ req.conds[1] = Cond("KernelDeadlock", "True")
    /\ req.conds[2] = Cond("KubeletProblem", "False")
    /\ req.opt.KernelDeadlock /\ req.opt.KubeletProblem
    /\ res.drain /\ ~res.event

(***************************************************************************)
(* Claims about the decide and act phases                                  *)
(***************************************************************************)
ProbedLM == << Ev("Freeze", "VirtualMachine", << Res1 >>, DescLM) >>

ProbedFreeze == << Ev("Freeze", "VirtualMachine", << Res1 >>, DescFreeze) >>

\* the watch-mode pass evaluated a host-health condition only
HealthOnly(h) ==
    /\ ~bypass
    /\ InPass(h)
    /\ pass[h].evaluated
    /\ pass[h].eval = << TRUE, FALSE >>

\* C12: a watch-mode pass whose evaluator returned (true, false) never
\* queries the metadata probe, and unless the state at entry says the node is
\* already cordoned and drained it goes through the act phase: it attempts
\* the cordon when isCordoned is false and invokes drain when isDrained is
\* false.
C12_HealthConditionNoProbe ==
    \A h \in Handlers :
        HealthOnly(h) =>
            /\ pass[h].queries = 0
            /\ pc[h] # "lm_query"
            /\ (PassDone(h) /\ ~(pass[h].entryState.IsCordoned
                                  /\ pass[h].entryState.IsDrained))
               => /\ ~pass[h].entryState.IsCordoned => Len(pass[h].cordons) >= 1
                  /\ ~pass[h].entryState.IsDrained => pass[h].drains = 1

\* a pass for KernelDeadlock that cordoned and drained without any query
C12_Witness ==
    \E h \in Handlers :
        /\ HealthOnly(h)
        /\ PassDone(h)
        /\ pass[h].entryNode = NodeObj(FALSE, FALSE)
        /\ Wrote(h, "cordon")
        /\ pass[h].drains = 1
        /\ state.IsCordoned /\ state.IsDrained
        /\ pass[h].queries = 0

\* the scenario of C13: watch mode, scheduled-event condition, the probe
\* reports a live migration for the node, policy Freeze=false and
\* LiveMigration=true, node schedulable, nothing cordoned or drained
LiveMigrationPass(h) ==
    /\ ~bypass
    /\ PassDone(h)
    /\ ~cfg.sched.Freeze /\ cfg.sched.LiveMigration
    /\ pass[h].eval = << TRUE, TRUE >>
    /\ pass[h].decided
    /\ pass[h].probed = ProbedLM
    /\ pass[h].entryNode = NodeObj(FALSE, FALSE)
    /\ ~pass[h].entryState.IsCordoned
    /\ ~pass[h].entryState.IsDrained

\* C13: in that scenario the pass invokes drain exactly once, records a
\* CordonNode event and then a DrainNode event, and when the cordon and the
\* drain succeed the cordon was verified unschedulable and labelled and the
\* two events are Normal CordonNode, Normal DrainNode.
C13_LiveMigrationCordonDrain ==
    \A h \in Handlers :
        LiveMigrationPass(h) =>
            /\ pass[h].drains = 1
            /\ Len(pass[h].cordons) >= 1
            /\ Len(pass[h].events) >= 2
            /\ pass[h].events[1][2] = "CordonNode"
            /\ pass[h].events[2][2] = "DrainNode"
            /\ pass[h].writes # << >> => pass[h].writes[1] = "cordon"
            /\ pass[h].cordons[1].cordoned
               => /\ pass[h].cordons[1].wrote
                  /\ pass[h].cordons[1].at = NodeObj(TRUE, TRUE)
                  /\ pass[h].events[1] = << "Normal", "CordonNode" >>
            /\ state.IsDrained => pass[h].events[2] = << "Normal", "DrainNode" >>
            /\ (pass[h].cordons[1].cordoned /\ state.IsDrained /\ Len(pass[h].cordons) = 1)
               => /\ pass[h].events = << << "Normal", "CordonNode" >>,
                                         << "Normal", "DrainNode" >> >>
                  /\ pass[h].writes = << "cordon" >>
                  /\ state.IsCordoned

\* the scenario ran with every cluster call succeeding
C13_Witness ==
    \E h \in Handlers :
        /\ LiveMigrationPass(h)
        /\ pass[h].events = << << "Normal", "CordonNode" >>, << "Normal", "DrainNode" >> >>
        /\ node = NodeObj(TRUE, TRUE)
        /\ state.IsCordoned /\ state.IsDrained
        /\ pass[h].refetchedRead

\* the scenario of C14: watch mode, scheduled-event condition, the probe
\* reports a regular freeze for the node, policy Freeze=false and
\* LiveMigration=true
RegularFreezePass(h) ==
    /\ ~bypass
    /\ PassDone(h)
    /\ ~cfg.sched.Freeze /\ cfg.sched.LiveMigration
    /\ pass[h].eval = << TRUE, TRUE >>
    /\ pass[h].decided
    /\ pass[h].probed = ProbedFreeze

\* C14 as stated: in that scenario the pass performs no cordon and no drain,
\* records no events and ends with shouldDrain false, whatever the state at
\* entry.
C14_RegularFreezeNoAction ==
    \A h \in Handlers :
        RegularFreezePass(h) =>
            /\ pass[h].cordons = << >>
            /\ pass[h].writes = << >>
            /\ pass[h].drains = 0
            /\ pass[h].events = << >>
            /\ ~state.ShouldDrain

\* validateCordon found the node schedulable although the state said cordoned
Recordon(h) ==
    /\ pass[h].entryState.IsCordoned
    /\ pass[h].refetchedRead
    /\ ~pass[h].refetched.unsched

\* C14 amended: in that scenario the pass performs no drain and ends with
\* shouldDrain false; it performs no cordon and records no events unless
\* isCordoned was true at entry and the re-fetched node is schedulable, in
\* which case it cordons the node again and records one CordonNode event.
C14_RegularFreezeNoDrain ==
    \A h \in Handlers :
        RegularFreezePass(h) =>
            /\ pass[h].drains = 0
            /\ ~state.ShouldDrain
            /\ IF Recordon(h)
               THEN /\ Len(pass[h].cordons) = 1
                    /\ Len(pass[h].events) = 1
                    /\ pass[h].events[1][2] = "CordonNode"
               ELSE /\ pass[h].cordons = << >>
                    /\ pass[h].writes = << >>
                    /\ pass[h].events = << >>

\* the regular-freeze pass that cordoned the node again
C14_Witness ==
    \E h \in Handlers :
        /\ RegularFreezePass(h)
        /\ Recordon(h)
        /\ pass[h].writes = << "cordon" >>
        /\ pass[h].events = << << "Normal", "CordonNode" >> >>

\* C15: in every state, isDrained implies isCordoned.
C15_DrainedImpliesCordoned ==
    state.IsDrained => state.IsCordoned

\* C16: shouldDrain is true at the end of a pass only when that pass itself
\* evaluated a drainable condition; a value left by an earlier pass does not
\* survive a pass without drainable condition or one that aborted on a probe
\* error.
C16_ShouldDrainRecomputed ==
    \A h \in Handlers :
        (PassDone(h) /\ state.ShouldDrain)
        => (pass[h].evaluated /\ pass[h].eval[1])

\* the snapshot of the pass: the object delivered with the update in watch
\* mode, the result of the Get in polling mode
Snapshot(h) == IF bypass THEN pass[h].snapshot ELSE pass[h].entryNode

\* C17: when the decide phase hands over to the resolver or to the act
\* phase, isCordoned equals the unschedulable flag of the snapshot of the
\* pass, in both modes.
C17_CordonedSeededFromSnapshot ==
    \A h \in Handlers :
        pc[h] \in {"lm_query", "cad"}
        => state.IsCordoned = Snapshot(h).unsched

\* C18: when the cordon attempt of the act phase fails, the pass records a
\* Warning CordonNode event, isCordoned stays false and drain is not invoked.
C18_NoDrainAfterFailedCordon ==
    \A h \in Handlers :
        ( /\ InPass(h)
          /\ loc[h].ret = "cad"
          /\ Len(pass[h].cordons) = 1
          /\ ~pass[h].cordons[1].cordoned )
        => /\ pass[h].events[1] = << "Warning", "CordonNode" >>
           /\ pass[h].drains = 0
           /\ pc[h] # "drain"

\* the pass aborted on a probe error that is not EOF: the first query failed
ProbeFailed(h) ==
    /\ PassDone(h)
    /\ pass[h].probeErr
    /\ pass[h].queries = 1

\* C20: a pass that aborts on a probe error other than EOF has written
\* nothing to the node, recorded no event and left isDrained as it was at
\* entry; its exit releases the lock and leaves the handler idle, so that a
\* later pass starts afresh and queries the probe again.
C20_ProbeErrorAbortsPass ==
    /\ [](\A h \in Handlers :
            ProbeFailed(h)
            => /\ pass[h].writes = << >>
               /\ pass[h].cordons = << >>
               /\ pass[h].uncordons = << >>
               /\ pass[h].drains = 0
               /\ pass[h].events = << >>
               /\ state.IsDrained = pass[h].entryState.IsDrained)
    /\ [][\A h \in Handlers :
            (ProbeFailed(h) /\ pc'[h] # pc[h])
            => (pc'[h] = "idle" /\ ~lock' /\ pass'[h] = NoPass /\ UNCHANGED <<state, node>>)]_vars

\* a polling pass on a cordoned and drained node aborted on a probe error
C20_Witness ==
    \E h \in Handlers :
        /\ ProbeFailed(h)
        /\ bypass
        /\ pass[h].snapshotRead
        /\ pass[h].entryState.IsDrained
        /\ state.IsDrained

(***************************************************************************)
(* SpecRetry: passes keep being triggered while a drainable condition      *)
(* persists, every step of a pass is taken, and drain and the calls a pass *)
(* makes before it succeed again and again                                 *)
(***************************************************************************)
InitRetry ==
    /\ Init
    /\ cfg.sched.LiveMigration /\ ~cfg.sched.Freeze

\* a trigger; in watch mode the update carries the KernelDeadlock condition
TriggerRetry(h) ==
    /\ TryLock(h)
    /\ (~bypass /\ ~lock) => loc'[h].conds = CondKernel

\* one trigger source: the passes follow one another
RetryHandlers == {1}

\* the steps of a pass after its entry guard
PassStep(h) ==
    \/ HandleNodeUpdate(h)
    \/ GetNode(h)
    \/ DrainRequired(h)
    \/ HandleNodeCordonAndDrain(h)
    \/ cordonNodeUpdate(h)
    \/ cordonNodeVerify(h)
    \/ drainNode(h)
    \/ validateCordon(h)
    \/ uncordonNode(h)
    \/ removeMechanicCordonLabel(h)
    \/ Unlock(h)

NextRetry ==
    \/ \E h \in RetryHandlers : TriggerRetry(h)
    \/ \E h \in RetryHandlers : PassStep(h)
    \/ OtherCordon
    \/ OtherUncordon

FairRetry ==
    /\ \A h \in RetryHandlers : WF_vars(PassStep(h))
    /\ \A h \in RetryHandlers : SF_vars(TriggerRetry(h))
    /\ \A h \in RetryHandlers : SF_vars(GetNode(h) /\ pass'[h].snapshotRead)
    /\ \A h \in RetryHandlers : SF_vars(DrainRequired(h) /\ pass'[h].shouldDrain)
    /\ \A h \in RetryHandlers : SF_vars(drainNode(h) /\ state'.IsDrained)

SpecRetry == InitRetry /\ [][NextRetry]_vars /\ FairRetry

\* the drain of the pass failed
DrainFailed(h) ==
    \E i \in 1..Len(pass[h].events) : pass[h].events[i] = << "Warning", "DrainNode" >>

RECURSIVE LeadingEof(_, _)
LeadingEof(outs, i) ==
    IF i > Len(outs) THEN 0
    ELSE IF outs[i].err = "EOF" THEN 1 + LeadingEof(outs, i + 1)
    ELSE 0

Min(a, b) == IF a < b THEN a ELSE b

\* C21: a clean EOF is retried, at most 3 attempts in total, with delays
\* 2s, 4s, 8s and never more than 10s; when every attempt ends in EOF the
\* error is returned and no drain is decided; any other probe error ends
\* the call at once, with no further attempt and no delay after it
C21_EofRetriedOtherErrorsNot ==
    res.done =>
        LET q == queryLoop(req.outs, 0, << >>)
            k == LeadingEof(req.outs, 1)
        IN  /\ q.attempts <= 3
            /\ q.attempts = Min(k + 1, 3)
            /\ q.delays = SubSeq(<< 2, 4, 8 >>, 1, Min(k, 3))
            /\ \A i \in 1..Len(q.delays) : q.delays[i] <= 10
            /\ k >= 3 => res.err = "EOF" /\ ~res.drain
            /\ (k < 3 /\ req.outs[k + 1].err = "other") =>
                   /\ res.err = "other"
                   /\ ~res.drain
                   /\ q.attempts = k + 1
                   /\ Len(q.delays) = k
            /\ (req.outs[1].err = "other") => q.attempts = 1 /\ q.delays = << >>

C21_Witness ==
    /\ res.done
    /\ LeadingEof(req.outs, 1) = 3
    /\ Len(req.outs) = 4
    /\ req.outs[4].err = "nil"
    /\ Len(req.outs[4].events) = 1
    /\ res.err = "EOF"
    /\ ~res.drain
    /\ queryLoop(req.outs, 0, << >>).delays = << 2, 4, 8 >>

(***************************************************************************)
(* pkg/imds: decoding of the metadata response                             *)
(***************************************************************************)
\* a decoded JSON value (interface{}): k is its dynamic type, "nil" for a
\* key the document does not have
JVal(k, s, n, a) == [k |-> k, s |-> s, n |-> n, a |-> a]
JNil       == JVal("nil", "", 0, << >>)
JString(s) == JVal("string", s, 0, << >>)
JNumber(n) == JVal("float64", "", n, << >>)
JArray(a)  == JVal("array", "", 0, a)

StringFields ==
    {"EventId", "EventType", "ResourceType", "EventStatus", "Description", "EventSource"}

EventFields == StringFields \cup {"Resources", "NotBefore", "DurationInSeconds"}

ValidDate == "Mon, 19 Sep 2016 18:29:47 GMT"

\* time.Parse("Mon, 02 Jan 2006 15:04:05 GMT", s): seconds since the epoch, the
\* zero time with an error for a string not in the layout
ParseTime(s) ==
    IF s = ValidDate THEN [err |-> FALSE, t |-> 1474309787]
    ELSE [err |-> TRUE, t |-> 0]

ZeroEvent ==
    [EventId |-> "", Type |-> "", ResourceType |-> "", Resources |-> << >>,
     EventStatus |-> "", NotBefore |-> 0, Description |-> "", EventSource |-> "",
     Duration |-> 0]

\* the body of the loop over events: a type assertion x.(T) on a value of
\* another dynamic type panics
buildEvent(eventMap) ==
    IF \E f \in StringFields : eventMap[f].k # "string"
    THEN [panic |-> TRUE, event |-> ZeroEvent]
    ELSE IF eventMap["Resources"].k # "array"
    THEN [panic |-> TRUE, event |-> ZeroEvent]
    ELSE IF eventMap["NotBefore"] # JNil \/ eventMap["DurationInSeconds"] # JString("")
    THEN IF eventMap["NotBefore"].k # "string"
               \/ eventMap["DurationInSeconds"].k # "float64"
         THEN [panic |-> TRUE, event |-> ZeroEvent]
         ELSE [panic |-> FALSE,
               event |->
                   [EventId |-> eventMap["EventId"].s,
                    Type |-> eventMap["EventType"].s,
                    ResourceType |-> eventMap["ResourceType"].s,
                    Resources |-> eventMap["Resources"].a,
                    EventStatus |-> eventMap["EventStatus"].s,
                    NotBefore |-> ParseTime(eventMap["NotBefore"].s).t,
                    Description |-> eventMap["Description"].s,
                    EventSource |-> eventMap["EventSource"].s,
                    Duration |-> eventMap["DurationInSeconds"].n]]
    ELSE [panic |-> FALSE,
          event |->
              [EventId |-> eventMap["EventId"].s,
               Type |-> eventMap["EventType"].s,
               ResourceType |-> eventMap["ResourceType"].s,
               Resources |-> eventMap["Resources"].a,
               EventStatus |-> eventMap["EventStatus"].s,
               NotBefore |-> 0,
               Description |-> eventMap["Description"].s,
               EventSource |-> eventMap["EventSource"].s,
               Duration |-> 0]]

RECURSIVE buildEvents(_, _, _)
buildEvents(events, i, acc) ==
    IF i > Len(events) THEN [panic |-> FALSE, events |-> acc]
    ELSE LET b == buildEvent(events[i])
         IN  IF b.panic THEN [panic |-> TRUE, events |-> acc]
             ELSE buildEvents(events, i + 1, Append(acc, b.event))

\* generic is [DocumentIncarnation, Events]; Events is [k, items]
buildEventResponse(generic) ==
    IF generic.DocumentIncarnation.k # "float64"
    THEN [panic |-> TRUE, IncarnationID |-> 0, Events |-> << >>]
    ELSE IF generic.Events.k # "array"
    THEN [panic |-> TRUE, IncarnationID |-> generic.DocumentIncarnation.n,
          Events |-> << >>]
    ELSE LET b == buildEvents(generic.Events.items, 1, << >>)
         IN  [panic |-> b.panic, IncarnationID |-> generic.DocumentIncarnation.n,
              Events |-> b.events]

(***************************************************************************)
(* SpecDecode: the decoder applied to bounded documents                    *)
(***************************************************************************)
FullEvent(notBefore) ==
    [f \in EventFields |->
        CASE f = "EventId"           -> JString("f020ba2e")
          [] f = "EventType"         -> JString("Freeze")
          [] f = "ResourceType"      -> JString("VirtualMachine")
          [] f = "EventStatus"       -> JString("Scheduled")
          [] f = "Description"       -> JString("Virtual machine is being paused")
          [] f = "EventSource"       -> JString("Platform")
          [] f = "Resources"         -> JArray(<< Res1 >>)
          [] f = "NotBefore"         -> JString(notBefore)
          [] f = "DurationInSeconds" -> JNumber(9)]

\* the event without the fields of F
Without(eventMap, F) == [f \in EventFields |-> IF f \in F THEN JNil ELSE eventMap[f]]

\* events that lack at most one field
OneMissing ==
    { Without(FullEvent(nb), F) :
        nb \in {ValidDate, ""}, F \in {{}} \cup {{f} : f \in EventFields} }

\* events that lack any set of fields
AnyMissing ==
    { Without(FullEvent(nb), F) : nb \in {ValidDate, ""}, F \in SUBSET EventFields }

Documents ==
    { [DocumentIncarnation |-> di, Events |-> [k |-> "array", items |-> es]] :
        di \in {JNumber(1), JNil},
        es \in SeqsUpTo(OneMissing, MaxEvents) \cup { << e >> : e \in AnyMissing } }
    \cup
    { [DocumentIncarnation |-> di, Events |-> [k |-> "nil", items |-> << >>]] :
        di \in {JNumber(1), JNil} }

DecodeNotCalled == [done |-> FALSE, panic |-> FALSE, IncarnationID |-> 0, Events |-> << >>]

InitDecode ==
    /\ \E g \in Documents : req = [fn |-> "QueryIMDS", generic |-> g]
    /\ res = DecodeNotCalled
    /\ node = NodeObj(FALSE, FALSE)
    /\ cfg \in {c \in Configs : c.sched.LiveMigration /\ ~c.sched.Freeze}
    /\ bypass = FALSE
    /\ state = NewState(FALSE)
    /\ lock = FALSE
    /\ pc = [h \in Handlers |-> "idle"]
    /\ loc = [h \in Handlers |-> NoLoc]
    /\ pass = [h \in Handlers |-> NoPass]
    /\ cordonBy = "none"

\* QueryIMDS once the body is decoded into the generic map
QueryIMDS ==
    /\ ~res.done
    /\ LET r == buildEventResponse(req.generic)
       IN  res' = [done |-> TRUE, panic |-> r.panic,
                   IncarnationID |-> r.IncarnationID, Events |-> r.Events]
    /\ UNCHANGED req
    /\ UNCHANGED passVars

NextDecode == QueryIMDS

SpecDecode == InitDecode /\ [][NextDecode]_vars

\* the value a string field of the document decodes to: zero when absent
StringOrZero(v) == IF v.k = "string" THEN v.s ELSE ""

\* C22: decoding a response that lacks DocumentIncarnation, Events or any
\* field of an event (NotBefore in particular) does not crash: the missing
\* field is left zero and the other fields and events are still decoded
C22_DecodeToleratesMissingFields ==
    res.done =>
        LET g     == req.generic
            items == g.Events.items
        IN  /\ ~res.panic
            /\ res.IncarnationID = g.DocumentIncarnation.n
            /\ Len(res.Events) = Len(items)
            /\ \A i \in 1..Len(items) :
                   /\ i <= Len(res.Events)
                   /\ res.Events[i].EventId = StringOrZero(items[i]["EventId"])
                   /\ res.Events[i].Type = StringOrZero(items[i]["EventType"])
                   /\ res.Events[i].Description = StringOrZero(items[i]["Description"])
                   /\ res.Events[i].Resources = items[i]["Resources"].a
                   /\ res.Events[i].Duration = items[i]["DurationInSeconds"].n
                   /\ res.Events[i].NotBefore =
                          ParseTime(StringOrZero(items[i]["NotBefore"])).t

(***************************************************************************)
(* SpecCordon: the actuator's cordon called repeatedly on one node, by a   *)
(* caller that reads the node before each call                             *)
(***************************************************************************)
MaxCalls == 2

Caller == 1

InitCordon ==
    /\ req = Call("cordonNode", << >>, NodeName1, [Freeze |-> FALSE, Reboot |-> FALSE,
                  Redeploy |-> FALSE, Preempt |-> FALSE, Terminate |-> FALSE,
                  LiveMigration |-> FALSE])
    /\ res = [done |-> FALSE, drain |-> FALSE, err |-> "nil"]
    /\ node \in {NodeObj(FALSE, FALSE), NodeObj(TRUE, FALSE), NodeObj(TRUE, TRUE),
                 NodeObj(FALSE, TRUE)}
    /\ cfg \in {c \in Configs : c.sched.LiveMigration /\ ~c.sched.Freeze}
    /\ bypass \in BOOLEAN
    /\ state \in {[NewState(c) EXCEPT !.HasDrainableCondition = TRUE,
                                      !.ShouldDrain = d] : c \in BOOLEAN, d \in BOOLEAN}
    /\ lock = TRUE
    /\ pc = [h \in Handlers |-> IF h = Caller THEN "call" ELSE "idle"]
    /\ loc = [h \in Handlers |-> [NoLoc EXCEPT !.ret = "validate"]]
    /\ pass = [h \in Handlers |-> [NoPass EXCEPT !.entryNode = node,
                                                 !.entryState = state]]
    /\ cordonBy = IF ~node.unsched THEN "none"
                  ELSE IF node.label THEN "agent" ELSE "other"

\* the node is updated whether or not the object passed in is unschedulable
alreadyCordonedNever(n) == FALSE

\* cordonNode: if node.Spec.Unschedulable
alreadyCordoned(n) == n.unsched

\* the caller reads the node and calls cordonNode with it; cordonNode up to
\* its first cluster call
cordonNode(h) ==
    /\ h = Caller
    /\ pc[h] \in {"call", "unlock"}
    /\ Len(pass[h].cordons) < MaxCalls
    /\ IF alreadyCordoned(node)
       THEN /\ cordonReturned(h, TRUE, FALSE)
            /\ loc' = [loc EXCEPT ![h].node = node]
       ELSE /\ pc' = [pc EXCEPT ![h] = "cordon_update"]
            /\ loc' = [loc EXCEPT ![h].node = node]
            /\ UNCHANGED <<state, pass>>
    /\ UNCHANGED <<req, res, node, cfg, bypass, lock, cordonBy>>

NextCordon ==
    \E h \in Handlers :
        \/ cordonNode(h)
        \/ cordonNodeUpdate(h)
        \/ cordonNodeVerify(h)

SpecCordon == InitCordon /\ [][NextCordon]_vars

\* the number of cordon updates the caller issued
RECURSIVE CountWrites(_, _)
CountWrites(writes, w) ==
    IF writes = << >> THEN 0
    ELSE (IF Head(writes) = w THEN 1 ELSE 0) + CountWrites(Tail(writes), w)

\* C23 as stated: two consecutive cordon calls that both return
\* cordoned=true leave the node unschedulable with the label
\* mechanic.cordoned and issue at most one update
C23_TwoCordonsLabelled ==
    \A h \in Handlers :
        \A i \in 1..(Len(pass[h].cordons) - 1) :
            LET c == pass[h].cordons
            IN  (c[i].cordoned /\ c[i + 1].cordoned) =>
                    /\ c[i + 1].at.unsched
                    /\ c[i + 1].at.label
                    /\ CountWrites(pass[h].writes, "cordon") <= 1

\* C23: two consecutive cordon calls that both return cordoned=true leave
\* the node unschedulable and isCordoned true, and issue at most one update
\* together; the node carries the label when a call wrote it or it was there
\* before, a node found unschedulable without the label is left without it
C23_TwoCordonsOneWrite ==
    \A h \in Handlers :
        /\ CountWrites(pass[h].writes, "cordon") <= 1
        /\ \A i \in 1..(Len(pass[h].cordons) - 1) :
               LET c == pass[h].cordons
               IN  (c[i].cordoned /\ c[i + 1].cordoned) =>
                       /\ c[i + 1].at.unsched
                       /\ c[i + 1].at = c[i].at
                       /\ ~c[i + 1].wrote
                       /\ c[i + 1].at.label <=>
                              \/ CountWrites(pass[h].writes, "cordon") = 1
                              \/ pass[h].entryNode.label
                       /\ (pc[h] = "unlock" /\ Len(c) = i + 1) => state.IsCordoned

C23_Witness ==
    LET c == pass[Caller].cordons
    IN  /\ Len(c) = 2
        /\ c[1].cordoned /\ c[1].wrote
        /\ c[2].cordoned /\ ~c[2].wrote
        /\ pass[Caller].writes = << "cordon" >>
        /\ node = NodeObj(TRUE, TRUE)
        /\ pass[Caller].entryNode = NodeObj(FALSE, FALSE)

(***************************************************************************)
(* SpecRecordon: the passes that follow a cordon by the agent, with the    *)
(* agent as the only writer of the node: every cordon the agent performs   *)
(* here comes after an uncordon of its own                                 *)
(***************************************************************************)
InitRecordon ==
    /\ req = Call("none", << >>, NodeName1, [Freeze |-> FALSE, Reboot |-> FALSE,
                  Redeploy |-> FALSE, Preempt |-> FALSE, Terminate |-> FALSE,
                  LiveMigration |-> FALSE])
    /\ res = [done |-> FALSE, drain |-> FALSE, err |-> "nil"]
    /\ node = NodeObj(TRUE, TRUE)
    /\ cfg \in Configs
    /\ bypass \in BOOLEAN
    /\ \E drained \in BOOLEAN, sched \in BOOLEAN :
          state = [HasDrainableCondition |-> TRUE,
                   ConditionIsScheduledEvent |-> sched /\ ~bypass,
                   IsCordoned |-> TRUE, IsDrained |-> drained, ShouldDrain |-> TRUE]
    /\ lock = FALSE
    /\ pc = [h \in Handlers |-> "idle"]
    /\ loc = [h \in Handlers |-> NoLoc]
    /\ pass = [h \in Handlers |-> NoPass]
    /\ cordonBy = "agent"

\* validateCordon's drift branch, the only caller of removeMechanicCordonLabel,
\* needs a labelled cordon the state does not know of: no pass meets one here
NextRecordon ==
    \E h \in Handlers :
        \/ TryLock(h)
        \/ ReturnSkipped(h)
        \/ HandleNodeUpdate(h)
        \/ FreezeOrLiveMigration(h)
        \/ GetNode(h)
        \/ DrainRequired(h)
        \/ HandleNodeCordonAndDrain(h)
        \/ cordonNodeUpdate(h)
        \/ cordonNodeVerify(h)
        \/ drainNode(h)
        \/ validateCordon(h)
        \/ uncordonNode(h)
        \/ Unlock(h)

SpecRecordon == InitRecordon /\ [][NextRecordon]_vars

\* the pass uncordoned the node
Uncordoned(h) == pass[h].uncordons # << >>

\* this step is the return of a cordon call of h with cordoned=true
CordonSucceeds(h) ==
    /\ Len(pass'[h].cordons) = Len(pass[h].cordons) + 1
    /\ pass'[h].cordons[Len(pass'[h].cordons)].cordoned

\* this step is a drain of h that completes
DrainCompletes(h) ==
    /\ pc[h] = "drain"
    /\ pass'[h].drains = pass[h].drains + 1
    /\ pass'[h].events = Append(pass[h].events, << "Normal", "DrainNode" >>)

\* C24: a pass in which the agent uncordons the node ends with isCordoned,
\* isDrained and shouldDrain false and the node schedulable without the
\* label; when the agent cordons the node again, in a later pass, the call
\* leaves isCordoned true and the node unschedulable with the label; and
\* isDrained stays false until a drain completes
C24_UncordonThenCordon ==
    /\ [](\A h \in Handlers :
             (PassDone(h) /\ Uncordoned(h)) =>
                 /\ ~state.IsCordoned
                 /\ ~state.IsDrained
                 /\ ~state.ShouldDrain
                 /\ node = NodeObj(FALSE, FALSE))
    /\ [][\A h \in Handlers :
             CordonSucceeds(h) =>
                 /\ state'.IsCordoned
                 /\ node' = NodeObj(TRUE, TRUE)
                 /\ pass'[h].cordons[Len(pass'[h].cordons)].wrote
                 /\ state'.IsDrained = state.IsDrained]_vars
    /\ [][(state'.IsDrained /\ ~state.IsDrained) =>
             \E h \in Handlers : DrainCompletes(h)]_vars

C24_Witness ==
    \E h \in Handlers :
        /\ PassDone(h)
        /\ pass[h].entryNode = NodeObj(FALSE, FALSE)
        /\ ~pass[h].entryState.IsCordoned
        /\ ~pass[h].entryState.IsDrained
        /\ Len(pass[h].cordons) = 1
        /\ pass[h].cordons[1].cordoned
        /\ pass[h].drains = 1
        /\ state.IsCordoned
        /\ ~state.IsDrained
        /\ node = NodeObj(TRUE, TRUE)

(***************************************************************************)
(* Claims about the recorder events of a pass                              *)
(***************************************************************************)
\* the events of the pass with the reason, of the type when one is given
RECURSIVE CountEvents(_, _, _)
CountEvents(events, type, reason) ==
    IF events = << >> THEN 0
    ELSE (IF Head(events)[2] = reason /\ type \in {"any", Head(events)[1]}
          THEN 1 ELSE 0)
         + CountEvents(Tail(events), type, reason)

\* C25: a pass records one CordonNode, UncordonNode or DrainNode event for
\* each cordon, uncordon or drain it attempts, Normal on success and Warning
\* on failure, and none for an act it did not attempt
C25_OneEventPerAct ==
    \A h \in Handlers :
        LET ev == pass[h].events
            c  == pass[h].cordons
        IN  /\ CountEvents(ev, "any", "CordonNode") = Len(c)
            /\ CountEvents(ev, "Normal", "CordonNode")
                   = Cardinality({i \in 1..Len(c) : c[i].cordoned})
            /\ CountEvents(ev, "any", "DrainNode") = pass[h].drains
            /\ CountEvents(ev, "Normal", "UncordonNode") = Len(pass[h].uncordons)

(***************************************************************************)
(* pkg/bypass: the polling driver.  Durations are in microseconds; a pass  *)
(* is one call of handleIMDSCheck, seen here from its lock to its return   *)
(***************************************************************************)
MaxTicks == 2

Second == 1000000

\* const PollingInterval = 10 * time.Second
PollingInterval == 10 * Second

\* ReadConfiguration: optionalConditions.pollingInterval in seconds, values
\* below 1 raised to 1
ReadPollingInterval(configured) == IF configured < 1 THEN 1 ELSE configured

\* configured values of optionalConditions.pollingInterval; 30 is the default
PollingIntervals == {0, 1, 5, 10, 30}

\* rng.Float64() in thousandths: a value of [0, 1)
RngSamples == {0, 125, 250, 500, 750, 875, 999}

\* jitter := time.Duration((rng.Float64() - 0.5) * float64(time.Second) * 0.5)
calculateJitteredInterval(r) == PollingInterval + ((r - 500) * (Second \div 1000)) \div 2

LooperStart ==
    [pc |-> "start", fired |-> FALSE, stop |-> FALSE, cancelled |-> FALSE,
     interval |-> 0, ticks |-> 0, lateStart |-> "none"]

InitPoll ==
    /\ \E configured \in PollingIntervals :
          req = [fn |-> "InitiateBypassLooper",
                 pollingInterval |-> ReadPollingInterval(configured)]
    /\ res = LooperStart
    /\ node = NodeObj(FALSE, FALSE)
    /\ cfg \in {c \in Configs : c.sched.LiveMigration /\ ~c.sched.Freeze}
    /\ bypass = TRUE
    /\ state = NewState(FALSE)
    /\ lock = FALSE
    /\ pc = [h \in Handlers |-> "idle"]
    /\ loc = [h \in Handlers |-> NoLoc]
    /\ pass = [h \in Handlers |-> NoPass]
    /\ cordonBy = "none"

pollUnchanged == <<req, node, cfg, bypass, state, pc, loc, pass, cordonBy>>

\* the stop channel is closed
CloseStop ==
    /\ res.pc # "returned"
    /\ ~res.stop
    /\ res' = [res EXCEPT !.stop = TRUE]
    /\ UNCHANGED lock
    /\ UNCHANGED pollUnchanged

\* the context passed in is cancelled
CancelContext ==
    /\ res.pc # "returned"
    /\ ~res.cancelled
    /\ res' = [res EXCEPT !.cancelled = TRUE]
    /\ UNCHANGED lock
    /\ UNCHANGED pollUnchanged

\* the timer set to res.interval expires: a value waits on timer.C
TimerExpires ==
    /\ res.pc = "select"
    /\ ~res.fired
    /\ res.ticks < MaxTicks
    /\ res' = [res EXCEPT !.fired = TRUE]
    /\ UNCHANGED lock
    /\ UNCHANGED pollUnchanged

\* "Perform initial IMDS check immediately"
InitialCheck ==
    /\ res.pc = "start"
    /\ ~lock
    /\ lock' = TRUE
    /\ res' = [res EXCEPT !.pc = "check",
                          !.lateStart = IF res.stop \/ res.cancelled
                                        THEN "initial" ELSE @]
    /\ UNCHANGED pollUnchanged

\* handleIMDSCheck returns; the timer is created or reset with the next
\* jittered interval
CheckReturns ==
    /\ res.pc = "check"
    /\ lock' = FALSE
    /\ \E r \in RngSamples :
          res' = [res EXCEPT !.pc = "select", !.fired = FALSE,
                             !.interval = calculateJitteredInterval(r)]
    /\ UNCHANGED pollUnchanged

\* select chooses one of the cases that can proceed: case <-timer.C
SelectTimer ==
    /\ res.pc = "select"
    /\ res.fired
    /\ ~lock
    /\ lock' = TRUE
    /\ res' = [res EXCEPT !.pc = "check", !.fired = FALSE, !.ticks = @ + 1,
                          !.lateStart = IF res.stop \/ res.cancelled
                                        THEN "timer" ELSE @]
    /\ UNCHANGED pollUnchanged

\* case <-ctx.Done()
SelectDone ==
    /\ res.pc = "select"
    /\ res.cancelled
    /\ res' = [res EXCEPT !.pc = "returned"]
    /\ UNCHANGED lock
    /\ UNCHANGED pollUnchanged

\* case <-stop
SelectStop ==
    /\ res.pc = "select"
    /\ res.stop
    /\ res' = [res EXCEPT !.pc = "returned"]
    /\ UNCHANGED lock
    /\ UNCHANGED pollUnchanged

NextPoll ==
    \/ CloseStop
    \/ CancelContext
    \/ TimerExpires
    \/ InitialCheck
    \/ CheckReturns
    \/ SelectTimer
    \/ SelectDone
    \/ SelectStop

SpecPoll == InitPoll /\ [][NextPoll]_vars

\* C26: every interval the timer is set to after the immediate first pass
\* lies within 0.75s of the configured polling interval (values below 1
\* raised to 1), for every configured value
C26_IntervalNearConfigured ==
    (res.pc \in {"select", "returned"} \/ res.interval # 0) =>
        /\ res.interval >= req.pollingInterval * Second - (3 * Second) \div 4
        /\ res.interval <= req.pollingInterval * Second + (3 * Second) \div 4

\* C27: once the stop channel is closed or the context cancelled, the timer
\* starts no new pass, even if it has fired as well
C27_NoPassAfterShutdown == res.lateStart # "timer"

(***************************************************************************)
(* SpecReload: reconcile passes with the configuration reloaded while the  *)
(* agent runs.  req holds the reload: `shared` is the Config object that   *)
(* EnableHotReload updates in place, `mc` the configuration just read,     *)
(* `old` the object's value before the reload.  In watch mode the passes   *)
(* read the shared object (HandleNodeUpdate takes *config.Config); in      *)
(* polling mode they read the copy InitiateBypassLooper received by value  *)
(***************************************************************************)
MaxReloads == 1

\* hot reload is switched on at startup, on the Config the driver is given
hotReloadEnabled == TRUE

NoReload(c) ==
    [fn |-> "EnableHotReload", old |-> c, mc |-> c, shared |-> c,
     pending |-> "none", reloads |-> 0, dirty |-> {}]

ResolverIdle == [done |-> FALSE, drain |-> FALSE, err |-> "nil"]

InitReload ==
    /\ cfg \in Configs
    /\ req = NoReload(cfg)
    /\ res = ResolverIdle
    /\ node = NodeObj(FALSE, FALSE)
    /\ bypass \in BOOLEAN
    /\ state = NewState(node.unsched)
    /\ lock = FALSE
    /\ pc = [h \in Handlers |-> "idle"]
    /\ loc = [h \in Handlers |-> NoLoc]
    /\ pass = [h \in Handlers |-> NoPass]
    /\ cordonBy = "none"

\* the passes in flight while the reload writes
Running == {h \in Handlers : pc[h] \notin {"idle", "skipped"}}

\* reload: the file changed, v.Unmarshal(&mc) has read the new configuration
reloadUnmarshal ==
    /\ hotReloadEnabled
    /\ req.pending = "none"
    /\ req.reloads < MaxReloads
    /\ \E mc \in Configs \ {req.shared} :
          req' = [req EXCEPT !.old = req.shared, !.mc = mc, !.pending = "sched",
                             !.reloads = @ + 1, !.dirty = @ \cup Running]
    /\ UNCHANGED <<res, node, cfg, bypass, state, lock, pc, loc, pass, cordonBy>>

\* cfg.ScheduledEventDrainConditions = mc.ScheduledEvents
reloadScheduledEvents ==
    /\ req.pending = "sched"
    /\ LET shared == [req.shared EXCEPT !.sched = req.mc.sched]
       IN  /\ req' = [req EXCEPT !.shared = shared, !.pending = "opt",
                                 !.dirty = @ \cup Running]
           /\ cfg' = IF bypass THEN cfg ELSE shared
    /\ UNCHANGED <<res, node, bypass, state, lock, pc, loc, pass, cordonBy>>

\* cfg.OptionalDrainConditions = mc.Optional
reloadOptional ==
    /\ req.pending = "opt"
    /\ LET shared == [req.shared EXCEPT !.opt = req.mc.opt]
       IN  /\ req' = [req EXCEPT !.shared = shared, !.pending = "none",
                                 !.dirty = @ \cup Running]
           /\ cfg' = IF bypass THEN cfg ELSE shared
    /\ UNCHANGED <<res, node, bypass, state, lock, pc, loc, pass, cordonBy>>

\* HandleNodeUpdate: the call of CheckIfFreezeOrLiveMigration, which reads the
\* policy through the pointer it is given
callFreezeOrLiveMigration(h) ==
    /\ pc[h] = "lm_query"
    /\ \E events \in ImdsResponses : \E outs \in ProbeOutcomes(events) :
         LET r == CheckIfFreezeOrLiveMigration(outs, cfg.NodeName, cfg.sched)
             q == queryLoop(outs, 0, << >>)
         IN  IF r.err # "nil"
             THEN /\ pass' = [pass EXCEPT ![h].queries = @ + q.attempts,
                                          ![h].probeErr = TRUE]
                  /\ pc' = [pc EXCEPT ![h] = "unlock"]
                  /\ res' = res
             ELSE /\ pass' = [pass EXCEPT ![h].queries = @ + q.attempts,
                                          ![h].probed = events]
                  /\ pc' = [pc EXCEPT ![h] = "lm_decide"]
                  /\ res' = [done |-> TRUE, drain |-> r.drain, err |-> "nil"]
    /\ UNCHANGED <<req, node, cfg, bypass, state, lock, loc, cordonBy>>

\* HandleNodeUpdate: the override of the drain decision, which reads
\* cfg.ScheduledEventDrainConditions after the resolver has returned
overturnDecision(h) ==
    /\ pc[h] = "lm_decide"
    /\ pass' = [pass EXCEPT ![h].decided = TRUE,
                            ![h].shouldDrain = ~overturned(res.drain, cfg.sched)]
    /\ state' = IF overturned(res.drain, cfg.sched)
                THEN [state EXCEPT !.ShouldDrain = FALSE]
                ELSE state
    /\ res' = ResolverIdle
    /\ pc' = [pc EXCEPT ![h] = "cad"]
    /\ UNCHANGED <<req, node, cfg, bypass, lock, loc, cordonBy>>

NextReload ==
    \/ reloadUnmarshal
    \/ reloadScheduledEvents
    \/ reloadOptional
    \/ \E h \in RetryHandlers :
          \/ TryLock(h)
          \/ HandleNodeUpdate(h)
          \/ callFreezeOrLiveMigration(h)
          \/ overturnDecision(h)
          \/ GetNode(h)
          \/ DrainRequired(h)
          \/ HandleNodeCordonAndDrain(h)
          \/ cordonNodeUpdate(h)
          \/ cordonNodeVerify(h)
          \/ drainNode(h)
          \/ validateCordon(h)
          \/ uncordonNode(h)
          \/ Unlock(h)

SpecReload == InitReload /\ [][NextReload]_vars

\* the drain decision of a watch-mode pass for a scheduled-event condition,
\* taken with the one configuration c
WatchDecision(events, c) ==
    ~overturned(CheckIfFreezeOrLiveMigration(<< Ok(events) >>, c.NodeName, c.sched).drain,
                c.sched)

\* the drain decision of a polling-mode pass taken with the configuration c
PollDecision(events, c) ==
    CheckIfDrainRequired(<< Ok(events) >>, c.NodeName, c.sched).drain

\* C28: the policy values a pass reads come from one configuration
\* snapshot: the decision of a pass is the decision taken with the
\* configuration as it was before the reload or as it is after it
C28_PassReadsOneSnapshot ==
    \A h \in Handlers :
        (pass[h].decided /\ req.reloads <= 1) =>
            \E c \in {req.old, req.mc} :
                pass[h].shouldDrain =
                    IF bypass THEN PollDecision(pass[h].probed, c)
                    ELSE WatchDecision(pass[h].probed, c)

\* C29: the first pass that starts after a reload has completed decides
\* with the new values, in watch mode and in polling mode
C29_NextPassUsesNewPolicy ==
    \A h \in Handlers :
        (/\ req.reloads >= 1
         /\ req.pending = "none"
         /\ h \notin req.dirty
         /\ pass[h].decided) =>
            pass[h].shouldDrain =
                IF bypass THEN PollDecision(pass[h].probed, req.mc)
                ELSE WatchDecision(pass[h].probed, req.mc)

(***************************************************************************)
(* Claims about the first pass after a restart                             *)
(***************************************************************************)
\* the pass was entered by a fresh agent (isCordoned seeded true, nothing
\* drained or decided) and the node it was given or read is unschedulable
FreshOnCordoned(h) ==
    /\ pass[h].entryState = NewState(TRUE)
    /\ bypass => pass[h].snapshotRead
    /\ Snapshot(h).unsched

\* the pass called uncordonNode
UncordonAttempted(h) ==
    \/ Wrote(h, "uncordon")
    \/ CountEvents(pass[h].events, "Warning", "UncordonNode") > 0

\* the node as re-fetched for the validation is the node the pass started with
SameAtValidation(h) == pass[h].refetchedRead => pass[h].refetched = Snapshot(h)

\* C30: the first pass of a restarted agent that finds the node
\* unschedulable with the label mechanic.cordoned and no drainable condition
\* uncordons the node, in watch mode and in polling mode, unless the node
\* cannot be read; without the label it leaves the cordon in place
C30_RestartReleasesOwnCordon ==
    \A h \in Handlers :
        (/\ PassDone(h)
         /\ FreshOnCordoned(h)
         /\ NoDrainableCondition(h)
         /\ SameAtValidation(h)) =>
            /\ (Snapshot(h).label /\ (~bypass \/ pass[h].refetchedRead)) =>
                   UncordonAttempted(h)
            /\ ~Snapshot(h).label => ~UncordonAttempted(h)

(***************************************************************************)
(* Claims about the watch-mode decision                                    *)
(***************************************************************************)
\* the watch-mode pass got an answer from the probe for a scheduled-event
\* condition
WatchDecided(h) ==
    /\ ~bypass
    /\ InPass(h)
    /\ pass[h].eval = << TRUE, TRUE >>
    /\ pass[h].decided

\* what isLiveMigration answers for the probed events: the policy drains for
\* live migration and an event is a Freeze that targets the node and whose
\* description has the live-migration phrase
IsLM(h) ==
    /\ cfg.sched.LiveMigration
    /\ \E i \in 1..Len(pass[h].probed) :
          /\ pass[h].probed[i].Type = "Freeze"
          /\ TargetsNode(pass[h].probed[i], cfg.NodeName)
          /\ HasLMPhrase(pass[h].probed[i])

\* C31: in a watch-mode pass with a scheduled-event condition, when the
\* decide phase hands over to the act phase shouldDrain is false exactly when
\* (isLM is false and policy.Freeze is false) or (isLM is true and
\* policy.LiveMigration is false); a regular freeze under Freeze=true,
\* LiveMigration=false goes through the act phase: the cordon is attempted
\* when isCordoned was false at entry and drain is invoked when isDrained was
\* false at entry.
C31_WatchDecision ==
    \A h \in Handlers :
        WatchDecided(h) =>
            /\ pc[h] = "cad" =>
                  (~state.ShouldDrain <=>
                      \/ ~IsLM(h) /\ ~cfg.sched.Freeze
                      \/ IsLM(h) /\ ~cfg.sched.LiveMigration)
            /\ ( /\ PassDone(h)
                 /\ pass[h].probed = ProbedFreeze
                 /\ cfg.sched.Freeze /\ ~cfg.sched.LiveMigration )
               => /\ ~pass[h].entryState.IsCordoned => Len(pass[h].cordons) >= 1
                  /\ ~pass[h].entryState.IsDrained => pass[h].drains = 1

\* a regular freeze under Freeze=true, LiveMigration=false was cordoned and
\* drained
C31_Witness ==
    \E h \in Handlers :
        /\ WatchDecided(h)
        /\ PassDone(h)
        /\ pass[h].probed = ProbedFreeze
        /\ cfg.sched.Freeze /\ ~cfg.sched.LiveMigration
        /\ pass[h].entryNode = NodeObj(FALSE, FALSE)
        /\ ~pass[h].entryState.IsCordoned /\ ~pass[h].entryState.IsDrained
        /\ Wrote(h, "cordon")
        /\ pass[h].drains = 1
        /\ state.IsCordoned /\ state.IsDrained

\* the probe of the pass reported an event of kind Reboot, Redeploy, Preempt
\* or Terminate that targets the node, and the policy flag of its kind is set
ProbedEnabledKind(h) ==
    \E i \in 1..Len(pass[h].probed) :
        /\ pass[h].probed[i].Type \in {"Reboot", "Redeploy", "Preempt", "Terminate"}
        /\ TargetsNode(pass[h].probed[i], cfg.NodeName)
        /\ KindFlag(cfg.sched, pass[h].probed[i].Type)

\* the act phase of the pass cordoned and drained: the cordon was attempted
\* unless isCordoned was true at entry, drain was invoked unless isDrained was
\* true at entry
CordonAndDrain(h) ==
    /\ ~pass[h].entryState.IsCordoned => Len(pass[h].cordons) >= 1
    /\ ~pass[h].entryState.IsDrained => pass[h].drains >= 1

\* C32: a watch-mode pass with a scheduled-event condition whose probe
\* reports a Reboot, Redeploy, Preempt or Terminate event that targets the
\* node, with the flag of that kind enabled, cordons and drains the node,
\* whatever policy.Freeze and policy.LiveMigration are.
C32_EnabledKindCordonDrain ==
    \A h \in Handlers :
        (WatchDecided(h) /\ PassDone(h) /\ ProbedEnabledKind(h)) =>
            /\ state.ShouldDrain
            /\ CordonAndDrain(h)

\* C33: a watch-mode pass with a scheduled-event condition whose probe
\* reports a live-migration Freeze event for the node while
\* policy.LiveMigration is false ends with shouldDrain false and invokes no
\* drain, for either value of policy.Freeze; it attempts no cordon (the
\* re-cordon of the ownership reconciliation, for a node found schedulable
\* while isCordoned was true at entry, is left aside).
C33_LiveMigrationDisabledNoAction ==
    \A h \in Handlers :
        ( /\ WatchDecided(h)
          /\ PassDone(h)
          /\ pass[h].probed = ProbedLM
          /\ ~cfg.sched.LiveMigration ) =>
            /\ ~state.ShouldDrain
            /\ pass[h].drains = 0
            /\ ~Recordon(h) => pass[h].cordons = << >>

\* no event the probe reported targets the node
NothingTargetsNode(h) ==
    \A i \in 1..Len(pass[h].probed) : ~TargetsNode(pass[h].probed[i], cfg.NodeName)

\* C34: a watch-mode pass with a scheduled-event condition whose probe
\* reports no event that targets the node (an empty list, or events for other
\* instances only) invokes no drain and attempts no cordon, for every policy
\* (the re-cordon of the ownership reconciliation is left aside).
C34_NoTargetNoAction ==
    \A h \in Handlers :
        (WatchDecided(h) /\ PassDone(h) /\ NothingTargetsNode(h)) =>
            /\ pass[h].drains = 0
            /\ ~Recordon(h) => pass[h].cordons = << >>

(***************************************************************************)
(* Claims about the ownership reconciliation                               *)
(***************************************************************************)
\* isCordoned when the decide phase starts: the value the state holds in
\* watch mode, the unschedulable flag of the node just read in polling mode
CordonedAtEntry(h) ==
    IF bypass
    THEN pass[h].snapshotRead /\ pass[h].snapshot.unsched
    ELSE pass[h].entryState.IsCordoned

\* the pass has a drainable condition and was entered cordoned and drained
AlreadyDone(h) ==
    /\ pass[h].evaluated
    /\ pass[h].eval[1]
    /\ CordonedAtEntry(h)
    /\ pass[h].entryState.IsDrained

\* where a pass stands while validateCordon and its cluster calls run
ReconcilePcs == {"refetch", "cordon_update", "cordon_verify", "uncordon", "rmlabel"}

\* C35: a pass with a drainable condition that was entered with isCordoned
\* and isDrained true invokes no drain and attempts no cordon in the act
\* phase, and the step that ends it is a step of the ownership
\* reconciliation (the re-fetch of the node or what validateCordon does with
\* it), in both driver modes.
C35_AlreadyDoneStillReconciles ==
    [][\A h \in Handlers :
          (pc[h] # "unlock" /\ pc'[h] = "unlock" /\ AlreadyDone(h)') =>
              /\ pc[h] \in ReconcilePcs
              /\ pass'[h].drains = 0
              /\ pass'[h].cordons # << >> => loc[h].ret = "validate"]_vars

\* the step in which handler h re-fetched the node and validateCordon ran up
\* to its first cluster call or to its return
ValidateStep(h) ==
    /\ pc[h] = "refetch"
    /\ pc'[h] # "refetch"
    /\ pass'[h].refetchedRead

\* a step of the cordonNode that validateCordon called
RecordonStep(h) ==
    /\ pc[h] \in {"cordon_update", "cordon_verify"}
    /\ loc[h].ret = "validate"
    /\ pc'[h] # pc[h]

\* C36: with hasDrainableCondition true, validateCordon calls cordonNode when
\* isCordoned is true and the re-fetched node is schedulable, and a cordon
\* that succeeds leaves the node unschedulable and labelled and isCordoned
\* true; it sets isCordoned to true without a cluster write when isCordoned
\* is false and the node is unschedulable; in every other case it changes
\* neither the state nor the node; it never uncordons.
C36_ReconcileWithCondition ==
    [][\A h \in Handlers :
          /\ (ValidateStep(h) /\ state.HasDrainableCondition) =>
                /\ node' = node
                /\ pass'[h].writes = pass[h].writes
                /\ IF state.IsCordoned /\ ~node.unsched
                   THEN /\ pc'[h] = "cordon_update"
                        /\ loc'[h].ret = "validate"
                        /\ state' = state
                   ELSE IF ~state.IsCordoned /\ node.unsched
                   THEN /\ pc'[h] = "unlock"
                        /\ state' = [state EXCEPT !.IsCordoned = TRUE]
                   ELSE /\ pc'[h] = "unlock"
                        /\ state' = state
          /\ RecordonStep(h) =>
                /\ node' \in {node, NodeObj(TRUE, TRUE)}
                /\ state' \in {state, [state EXCEPT !.IsCordoned = TRUE]}
                /\ pc'[h] \in {"cordon_verify", "unlock"}
                /\ pass'[h].uncordons = pass[h].uncordons
                /\ (pc'[h] = "unlock"
                    /\ pass'[h].cordons[Len(pass'[h].cordons)].cordoned) =>
                       /\ state'.IsCordoned
                       /\ Wrote(h, "cordon")
                       /\ pass'[h].cordons[Len(pass'[h].cordons)].at = NodeObj(TRUE, TRUE)]_vars

\* validateCordon found the node schedulable under a drainable condition
\* while isCordoned was true, and cordoned it again
C36_Witness ==
    \E h \in Handlers :
        /\ PassDone(h)
        /\ state.HasDrainableCondition
        /\ pass[h].refetchedRead
        /\ ~pass[h].refetched.unsched
        /\ loc[h].ret = "validate"
        /\ pass[h].writes = << "cordon" >>
        /\ Len(pass[h].cordons) = 1
        /\ pass[h].cordons[1].cordoned
        /\ node = NodeObj(TRUE, TRUE)
        /\ state.IsCordoned

\* validateCordon ran without drainable condition and with isCordoned true
\* (the polling pass read the node unschedulable and skipped the act phase)
\* and the node it was given, re-fetched, is schedulable
DriftToSchedulable(h) ==
    /\ bypass
    /\ PassDone(h)
    /\ NoDrainableCondition(h)
    /\ pass[h].snapshotRead
    /\ pass[h].snapshot.unsched
    /\ pass[h].refetchedRead
    /\ ~pass[h].refetched.unsched

\* the uncordon call of the pass failed
UncordonFailed(h) == CountEvents(pass[h].events, "Warning", "UncordonNode") > 0

\* C37: validateCordon, run without drainable condition and with isCordoned
\* true on a re-fetched node that is schedulable, ends with isCordoned false,
\* with and without the label mechanic.cordoned on the node (a failing
\* cluster call aside).
C37_DriftMarksUncordoned ==
    \A h \in Handlers :
        (DriftToSchedulable(h) /\ ~UncordonFailed(h)) => ~state.IsCordoned

\* C38 as stated: a pass writes unschedulable=true and the label to the node
\* only when shouldDrain is true in that pass.
C38_CordonOnlyWhenShouldDrain ==
    \A h \in Handlers :
        (InPass(h) /\ Wrote(h, "cordon")) => state.ShouldDrain

\* the pass cordoned in validateCordon: drainable condition, isCordoned true
\* since the entry of the pass, re-fetched node schedulable
RecordonByReconciliation(h) ==
    /\ loc[h].ret = "validate"
    /\ state.HasDrainableCondition
    /\ CordonedAtEntry(h)
    /\ pass[h].refetchedRead
    /\ ~pass[h].refetched.unsched
    /\ pass[h].drains = 0

\* C38 amended: a pass writes unschedulable=true and the label to the node
\* only when shouldDrain is true in that pass, or when hasDrainableCondition
\* is true and the ownership reconciliation found the re-fetched node
\* schedulable while isCordoned was true; the act phase of a pass whose
\* decision is not to drain attempts no cordon and no drain.
C38_CordonOnlyWhenShouldDrainOrRecordon ==
    \A h \in Handlers :
        /\ (InPass(h) /\ Wrote(h, "cordon")) =>
              (state.ShouldDrain \/ RecordonByReconciliation(h))
        /\ (InPass(h) /\ pass[h].decided /\ ~pass[h].shouldDrain) =>
              /\ pc[h] # "drain"
              /\ pass[h].drains = 0
              /\ pc[h] \in {"cordon_update", "cordon_verify"} => loc[h].ret = "validate"

\* a pass that decided not to drain cordoned the node in validateCordon
C38_Witness ==
    \E h \in Handlers :
        /\ PassDone(h)
        /\ pass[h].decided
        /\ ~pass[h].shouldDrain
        /\ ~state.ShouldDrain
        /\ RecordonByReconciliation(h)
        /\ pass[h].writes = << "cordon" >>
        /\ node = NodeObj(TRUE, TRUE)

\* validateCordon ran without drainable condition on a re-fetched node that
\* is schedulable and carries the label
SchedulableButLabelled(h) ==
    /\ PassDone(h)
    /\ NoDrainableCondition(h)
    /\ pass[h].refetchedRead
    /\ ~pass[h].refetched.unsched
    /\ pass[h].refetched.label

\* C39: when the ownership reconciliation of a pass without drainable
\* condition finds the re-fetched node schedulable and labelled
\* mechanic.cordoned, the label is gone from the node at the end of the pass
\* (a failing cluster call aside).
C39_StaleLabelRemoved ==
    \A h \in Handlers :
        (SchedulableButLabelled(h) /\ ~UncordonFailed(h)) => ~node.label

\* a watch-mode pass of a later cycle: a drain completed in an earlier pass
\* (isDrained true at entry), the pass before this one found no drainable
\* condition (hasDrainableCondition false at entry), and this pass finds one
\* that requires a drain (a host-health condition, or a scheduled event the
\* decide phase decided to drain for)
NewCycleRequiresDrain(h) ==
    /\ ~bypass
    /\ PassDone(h)
    /\ pass[h].entryState.IsDrained
    /\ ~pass[h].entryState.HasDrainableCondition
    /\ pass[h].evaluated
    /\ pass[h].eval[1]
    /\ ~pass[h].probeErr
    /\ pass[h].eval[2] => (pass[h].decided /\ pass[h].shouldDrain)

\* C40: in watch mode, a pass that finds a new drainable condition requiring
\* a drain after the earlier one was handled and had cleared invokes drain
\* again: isDrained left over from the earlier cycle does not suppress it.
C40_NewConditionDrainedAgain ==
    \A h \in Handlers :
        NewCycleRequiresDrain(h) => pass[h].drains >= 1

====
